---- MODULE Spec2Model ----
(***************************************************************************)
(* Qdrant MCP server (src/qdrant-mcp-server): the eighteen tool            *)
(* coroutines of tools/collections.py, tools/points.py, tools/search.py    *)
(* and tools/admin.py, the four module-level client singletons they share  *)
(* within a module, and the vector engine they call.                       *)
(*                                                                         *)
(* A tool invocation is a coroutine.  It runs without interruption from    *)
(* one `await` on the backend to the next, so every action below is one    *)
(* such segment: the backend answers the pending request (or the request   *)
(* raises) and the coroutine runs on to its next request or to its return. *)
(***************************************************************************)
EXTENDS Integers, Sequences, FiniteSets, TLC

VARIABLES
    cfgOk,        \* whether AsyncQdrantClient(...) accepts the process configuration
    client,       \* the `_client` global of each tools module: 0 is None, k the k-th handle the module built
    constructed,  \* handles each module has constructed so far
    attempts,     \* constructor calls each module has made so far
    backend,      \* the vector engine: its collections, their configuration and points
    inv,          \* the tool invocations in flight, one per slot
    hist          \* the last invocation whose envelope was handed back (ReturnLogged)

vars == <<cfgOk, client, constructed, attempts, backend, inv, hist>>

(***************************************************************************)
(* Bounds of the model.                                                    *)
(***************************************************************************)
MaxInFlight == 2
MaxCtorAttempts == 2
MaxSnapshots == 1

Slots == 1..MaxInFlight

(***************************************************************************)
(* Universe of values.                                                     *)
(***************************************************************************)
Modules == {"collections", "points", "search", "admin"}

Names == {"kb", "tmp"}
NameOrder == <<"kb", "tmp">>

D1 == "doc-1"
D2 == "doc-2"
D3 == "doc-3"
H1 == "eea9cb72-744e-5814-a929-652d970d86ac"
H1U == "EEA9CB72-744E-5814-A929-652D970D86AC"
H2 == "2652c3f2-4088-5a28-b1ae-5ff2fd825971"
H3 == "59214d7a-3686-5b2e-8d25-8f51ef5c74b0"
\* The engine's unsigned-integer point ids 0, 1 and 2, which are not strings.
I0 == "<int 0>"
I1 == "<int 1>"
I2 == "<int 2>"

\* A string holding a lone surrogate code point, as json.loads('"\\ud800"') gives.
Surrogate == "<U+D800>"

\* Python None where a string, resp. an integer, is expected.
PyNone == "<None>"
NoneInt == -1
\* Python None where a mapping is expected.
PyNoneMap == [py_none |-> TRUE]

DefaultVectorName == "text-dense"

(***************************************************************************)
(* Identifier normalizer.                                                  *)
(***************************************************************************)
\* uuid.UUID(s) succeeds: the strings of the universe that are UUID text.
ParsesAsUuid(s) == s \in {H1, H1U, H2, H3}

\* str(uuid.uuid5(uuid.NAMESPACE_DNS, s)), tabulated from the function itself.
Uuid5(s) ==
    CASE s = D1 -> H1
      [] s = D2 -> H2
      [] s = D3 -> H3
      [] s = H1 -> "f1e6e0ee-884f-5f51-9ed5-d2f0240446ce"
      [] s = H1U -> "f22788ed-f8e4-531c-adca-56d289ff612c"
      [] OTHER -> "05b16a01-46c6-56dd-bd6e-c6dfb4a1427a"

\* _to_uuid raises instead of returning: bytes(name, "utf-8") inside
\* uuid.uuid5 does not encode a lone surrogate.
ToUuidFails(id_str) == ~ParsesAsUuid(id_str) /\ id_str = Surrogate

ToUuidAlwaysHash(id_str) == Uuid5(id_str)

ToUuidIdentity(id_str) == id_str

\* _to_uuid
ToUuid(id_str) ==
    IF ParsesAsUuid(id_str) THEN id_str ELSE Uuid5(id_str)

\* The engine stores a UUID under its canonical (lower-case) text.
CanonicalId(u) == IF u = H1U THEN H1 ELSE u

\* str(x) of a point id the engine returned: the digits of an integer id, the
\* text of a UUID.
PyStr(x) ==
    CASE x = I0 -> "0"
      [] x = I1 -> "1"
      [] x = I2 -> "2"
      [] OTHER -> x

(***************************************************************************)
(* Exceptions and envelopes.                                               *)
(***************************************************************************)
NoExc == [type |-> "none", status_code |-> 0, text |-> ""]
UnexpectedResponse(code, text) ==
    [type |-> "UnexpectedResponse", status_code |-> code, text |-> text]
PyException(type, text) == [type |-> type, status_code |-> 0, text |-> text]

\* bytes(name, "utf-8") inside uuid.uuid5 raises on a lone surrogate; the
\* exception is a ValueError raised in the except clause, so it leaves _to_uuid.
UnicodeEncodeError ==
    PyException("UnicodeEncodeError",
                "'utf-8' codec can't encode character: surrogates not allowed")

NotFound(name) == UnexpectedResponse(404, "Not found: Collection " \o name \o " doesn't exist!")
Conflict(name) == UnexpectedResponse(409, "Conflict: Collection " \o name \o " already exists!")
BadRequest(text) == UnexpectedResponse(400, text)

\* What a request that does not get its answer raises.
FaultKinds == {"http500", "transport"}
FaultExc(fault) ==
    IF fault = "http500"
    THEN UnexpectedResponse(500, "Internal Server Error")
    ELSE PyException("ResponseHandlingException", "All connection attempts failed")

ConstructError == PyException("ValueError", "invalid client configuration")

ToolResponse(data) == [status |-> "success", data |-> data]
ToolError(error) == [status |-> "error", error |-> error]
NoResult == [status |-> "pending"]

(***************************************************************************)
(* The vector engine, as the tools observe it through the client.          *)
(***************************************************************************)
NoPoints == [b \in {} |-> PyNoneMap]

DefaultOptimizers == [indexing_threshold |-> 20000, flush_interval_sec |-> 5]

NoCollection ==
    [exists |-> FALSE, config |-> PyNoneMap, points |-> NoPoints, snapshots |-> 0]

EmptyBackend == [n \in Names |-> NoCollection]

\* What a backend call yields: an exception or a response, and the engine afterwards.
Raised(b, exc) == [exc |-> exc, resp |-> PyNoneMap, backend |-> b]
Answered(b, resp) == [exc |-> NoExc, resp |-> resp, backend |-> b]

\* client.get_collections(): the listing, in the engine's order.
BkGetCollections(b) ==
    Answered(b, [collections |-> SelectSeq(NameOrder, LAMBDA n : b[n].exists)])

\* client.get_collection(name)
BkGetCollection(b, name) ==
    IF ~b[name].exists THEN Raised(b, NotFound(name))
    ELSE Answered(b, [status |-> "green",
                      points_count |-> Cardinality(DOMAIN b[name].points),
                      config |-> b[name].config])

\* client.create_collection(...)
BkCreateCollection(b, req) ==
    IF b[req.collection_name].exists THEN Raised(b, Conflict(req.collection_name))
    ELSE Answered(
           [b EXCEPT ![req.collection_name] =
               [exists |-> TRUE,
                config |-> [size |-> req.size,
                            distance |-> req.distance,
                            on_disk |-> req.on_disk,
                            sparse |-> req.sparse,
                            m |-> req.m,
                            ef_construct |-> req.ef_construct,
                            indexing_threshold |-> DefaultOptimizers.indexing_threshold,
                            flush_interval_sec |-> DefaultOptimizers.flush_interval_sec],
                points |-> NoPoints,
                snapshots |-> 0]],
           [result |-> TRUE])

\* client.delete_collection(name): dropping a missing collection is no error.
BkDeleteCollection(b, name) ==
    Answered([b EXCEPT ![name] = NoCollection], [result |-> b[name].exists])

\* A diff field left at None keeps the stored value.
Patched(old, new) == IF new = NoneInt THEN old ELSE new

\* client.update_collection(name, hnsw_config, optimizers_config)
BkUpdateCollection(b, req) ==
    IF ~b[req.collection_name].exists THEN Raised(b, NotFound(req.collection_name))
    ELSE LET c == b[req.collection_name].config
             h == req.hnsw_config
             o == req.optimizers_config
             c1 == IF h = PyNoneMap THEN c
                   ELSE [c EXCEPT !.m = Patched(@, h.m),
                                  !.ef_construct = Patched(@, h.ef_construct)]
             c2 == IF o = PyNoneMap THEN c1
                   ELSE [c1 EXCEPT !.indexing_threshold = Patched(@, o.indexing_threshold),
                                   !.flush_interval_sec = Patched(@, o.flush_interval_sec)]
         IN Answered([b EXCEPT ![req.collection_name].config = c2], [result |-> TRUE])

(***************************************************************************)
(* The client singleton of a tools module.                                 *)
(***************************************************************************)
ModuleOf(op) ==
    CASE op \in {"list_collections", "create_collection", "delete_collection",
                 "get_collection_info", "update_collection"} -> "collections"
      [] op \in {"count_points", "get_points", "scroll_points",
                 "upsert_points", "delete_points"} -> "points"
      [] op \in {"search_vectors", "search_batch", "recommend_points"} -> "search"
      [] OTHER -> "admin"

NoHandle == [module |-> "none", serial |-> 0]

\* A get_client() without the `if _client is None` test.
GetClientAlwaysNew(m) ==
    IF cfgOk
    THEN [exc |-> NoExc, handle |-> [module |-> m, serial |-> constructed[m] + 1],
          built |-> TRUE, tried |-> TRUE]
    ELSE [exc |-> ConstructError, handle |-> NoHandle, built |-> FALSE, tried |-> TRUE]

\* get_client() of module m: the handle it returns or the exception it raises,
\* and whether it called the constructor.
GetClient(m) ==
    IF client[m] # 0
    THEN [exc |-> NoExc, handle |-> [module |-> m, serial |-> client[m]],
          built |-> FALSE, tried |-> FALSE]
    ELSE IF cfgOk
         THEN [exc |-> NoExc, handle |-> [module |-> m, serial |-> constructed[m] + 1],
               built |-> TRUE, tried |-> TRUE]
         ELSE [exc |-> ConstructError, handle |-> NoHandle, built |-> FALSE, tried |-> TRUE]

\* The assignment `_client = AsyncQdrantClient(...)` of get_client().
StoreClient(m, gc) ==
    /\ client' = IF gc.built THEN [client EXCEPT ![m] = gc.handle.serial] ELSE client
    /\ constructed' = IF gc.built THEN [constructed EXCEPT ![m] = @ + 1] ELSE constructed
    /\ attempts' = IF gc.tried THEN [attempts EXCEPT ![m] = @ + 1] ELSE attempts

\* The constructor is called at most MaxCtorAttempts times per module.
MayCallGetClient(m) == client[m] # 0 \/ attempts[m] < MaxCtorAttempts

(***************************************************************************)
(* Invocations.                                                            *)
(***************************************************************************)
Idle ==
    [op |-> "none", args |-> PyNoneMap, pc |-> "idle", loc |-> PyNoneMap,
     calls |-> <<>>, result |-> NoResult, pre |-> EmptyBackend, handle |-> NoHandle]

\* A coroutine that has just been called; `pre` keeps the engine as it was then.
Fresh(op, a) ==
    [op |-> op, args |-> a, pc |-> "run", loc |-> PyNoneMap,
     calls |-> <<>>, result |-> NoResult, pre |-> backend, handle |-> NoHandle]

Holding(s, gc) == [s EXCEPT !.handle = gc.handle]

\* The coroutine awaits a request sent through its client.
Suspend(s, pc, call, req, loc) ==
    [s EXCEPT !.pc = pc,
              !.loc = loc,
              !.calls = Append(@, [call |-> call, via |-> s.handle, req |-> req])]

\* The coroutine returns.
Done(s, envelope) == [s EXCEPT !.pc = "done", !.result = envelope]

\* The answer to a pending request: the engine's, or the fault's exception.
Reply(fault, normal) ==
    IF fault = "none" THEN normal ELSE Raised(backend, FaultExc(fault))

At(i, op, pc) == inv[i].op = op /\ inv[i].pc = pc

(***************************************************************************)
(* The except clauses that end every tool.                                 *)
(***************************************************************************)
HasNotFoundClause(op) ==
    op \notin {"list_collections", "create_collection", "delete_collection",
               "get_cluster_info", "health_check"}

FailPrefix(op) ==
    CASE op = "list_collections" -> "Failed to list collections: "
      [] op = "create_collection" -> "Failed to create collection: "
      [] op = "delete_collection" -> "Failed to delete collection: "
      [] op = "get_collection_info" -> "Failed to get collection info: "
      [] op = "update_collection" -> "Failed to update collection: "
      [] op = "count_points" -> "Failed to count points: "
      [] op = "get_points" -> "Failed to get points: "
      [] op = "scroll_points" -> "Failed to scroll points: "
      [] op = "upsert_points" -> "Failed to upsert points: "
      [] op = "delete_points" -> "Failed to delete points: "
      [] op = "search_vectors" -> "Failed to search: "
      [] op = "search_batch" -> "Failed to batch search: "
      [] op = "recommend_points" -> "Failed to get recommendations: "
      [] op = "optimize_collection" -> "Failed to optimize collection: "
      [] op = "create_snapshot" -> "Failed to create snapshot: "
      [] op = "list_snapshots" -> "Failed to list snapshots: "
      [] op = "get_cluster_info" -> "Failed to get cluster info: "
      [] OTHER -> "Health check failed: "

\* Handlers that catch UnexpectedResponse only.
CaughtUnexpectedOnly(op, coll, exc) ==
    IF exc.type = "UnexpectedResponse"
    THEN ToolError(FailPrefix(op) \o exc.text)
    ELSE [status |-> "raised", exc |-> exc]

\* `except UnexpectedResponse` (where the tool has it) and `except Exception`.
Caught(op, coll, exc) ==
    IF HasNotFoundClause(op) /\ exc.type = "UnexpectedResponse" /\ exc.status_code = 404
    THEN ToolError("Collection '" \o coll \o "' not found")
    ELSE ToolError(FailPrefix(op) \o exc.text)

(***************************************************************************)
(* tools/collections.py                                                    *)
(***************************************************************************)
\* A call without arguments.
NoArgs == [none |-> TRUE]

\* Tool 1: list_collections, up to the listing request.
list_collections_start(i) ==
    /\ inv[i].pc = "idle"
    /\ MayCallGetClient("collections")
    /\ LET gc == GetClient("collections")
           s == Holding(Fresh("list_collections", NoArgs), gc)
       IN /\ StoreClient("collections", gc)
          /\ inv' = [inv EXCEPT ![i] =
                IF gc.exc # NoExc
                THEN Done(s, Caught("list_collections", "", gc.exc))
                ELSE Suspend(s, "listing", "get_collections", NoArgs, PyNoneMap)]
    /\ UNCHANGED <<cfgOk, backend, hist>>

ListingEnvelope(entries) ==
    ToolResponse([collections |-> entries, total_count |-> Len(entries)])

\* list_collections: the listing arrives; the loop asks for the first detail.
list_collections_listed(i, fault) ==
    /\ At(i, "list_collections", "listing")
    /\ LET r == Reply(fault, BkGetCollections(backend))
           s == inv[i]
           names == r.resp.collections
       IN inv' = [inv EXCEPT ![i] =
             IF r.exc # NoExc THEN Done(s, Caught("list_collections", "", r.exc))
             ELSE IF names = <<>> THEN Done(s, ListingEnvelope(<<>>))
             ELSE Suspend(s, "detail", "get_collection", [collection_name |-> names[1]],
                          [names |-> names, k |-> 1, out |-> <<>>])]
    /\ UNCHANGED <<cfgOk, client, constructed, attempts, backend, hist>>

\* One pass of the loop body without the inner try/except: a failed lookup
\* reaches the outer except clause.
list_collections_detail_aborting(i, fault) ==
    /\ At(i, "list_collections", "detail")
    /\ LET s == inv[i]
           l == s.loc
           name == l.names[l.k]
           r == Reply(fault, BkGetCollection(backend, name))
           out == Append(l.out, [name |-> name, status |-> r.resp.status,
                                 points_count |-> r.resp.points_count])
       IN inv' = [inv EXCEPT ![i] =
             IF r.exc # NoExc THEN Done(s, Caught("list_collections", "", r.exc))
             ELSE IF l.k = Len(l.names) THEN Done(s, ListingEnvelope(out))
             ELSE Suspend(s, "detail", "get_collection",
                          [collection_name |-> l.names[l.k + 1]],
                          [names |-> l.names, k |-> l.k + 1, out |-> out])]
    /\ UNCHANGED <<cfgOk, client, constructed, attempts, backend, hist>>

\* list_collections: one pass of the loop body, with its inner try/except.
list_collections_detail(i, fault) ==
    /\ At(i, "list_collections", "detail")
    /\ LET s == inv[i]
           l == s.loc
           name == l.names[l.k]
           r == Reply(fault, BkGetCollection(backend, name))
           entry == IF r.exc # NoExc
                    THEN [name |-> name, status |-> "unknown", points_count |-> 0]
                    ELSE [name |-> name, status |-> r.resp.status,
                          points_count |-> r.resp.points_count]
           out == Append(l.out, entry)
       IN inv' = [inv EXCEPT ![i] =
             IF l.k = Len(l.names) THEN Done(s, ListingEnvelope(out))
             ELSE Suspend(s, "detail", "get_collection",
                          [collection_name |-> l.names[l.k + 1]],
                          [names |-> l.names, k |-> l.k + 1, out |-> out])]
    /\ UNCHANGED <<cfgOk, client, constructed, attempts, backend, hist>>

\* str.lower() on the distance names of the universe.
Lower(str) ==
    CASE str = "Cosine" -> "cosine"
      [] str = "EUCLID" -> "euclid"
      [] str = "Euclid" -> "euclid"
      [] str = "Dot" -> "dot"
      [] OTHER -> str

\* distance_map.get(distance.lower(), qmodels.Distance.COSINE)
DistanceEnum(distance) ==
    CASE Lower(distance) = "cosine" -> "Cosine"
      [] Lower(distance) = "euclid" -> "Euclid"
      [] Lower(distance) = "dot" -> "Dot"
      [] OTHER -> "Cosine"

\* Tool 2: create_collection, up to the existence listing.
create_collection_start(i, a) ==
    /\ inv[i].pc = "idle"
    /\ MayCallGetClient("collections")
    /\ LET gc == GetClient("collections")
           s == Holding(Fresh("create_collection", a), gc)
       IN /\ StoreClient("collections", gc)
          /\ inv' = [inv EXCEPT ![i] =
                IF gc.exc # NoExc
                THEN Done(s, Caught("create_collection", a.name, gc.exc))
                ELSE Suspend(s, "exists_check", "get_collections", NoArgs, PyNoneMap)]
    /\ UNCHANGED <<cfgOk, backend, hist>>

\* The arguments of client.create_collection(...)
CreateRequest(a) ==
    [collection_name |-> a.name,
     size |-> a.vector_size,
     distance |-> DistanceEnum(a.distance),
     on_disk |-> a.on_disk,
     sparse |-> a.enable_sparse,
     m |-> a.hnsw_m,
     ef_construct |-> a.hnsw_ef_construct]

InSeq(x, seq) == \E k \in 1..Len(seq) : seq[k] = x

\* A pre-flight test that lets every name through.
AlreadyListedNever(name, listing) == FALSE

\* name in [c.name for c in collections.collections]
AlreadyListed(name, listing) == InSeq(name, listing)

\* create_collection: the pre-flight existence test, then the create request.
create_collection_checked(i, fault) ==
    /\ At(i, "create_collection", "exists_check")
    /\ LET r == Reply(fault, BkGetCollections(backend))
           s == inv[i]
           a == s.args
       IN inv' = [inv EXCEPT ![i] =
             IF r.exc # NoExc THEN Done(s, Caught("create_collection", a.name, r.exc))
             ELSE IF AlreadyListed(a.name, r.resp.collections)
                  THEN Done(s, ToolError("Collection '" \o a.name \o "' already exists"))
             ELSE Suspend(s, "creating", "create_collection", CreateRequest(a), PyNoneMap)]
    /\ UNCHANGED <<cfgOk, client, constructed, attempts, backend, hist>>

\* create_collection taking the engine's refusal of a duplicate for a success.
create_collection_created_lenient(i, fault) ==
    /\ At(i, "create_collection", "creating")
    /\ LET s == inv[i]
           a == s.args
           r == Reply(fault, BkCreateCollection(backend, CreateRequest(a)))
       IN /\ backend' = r.backend
          /\ inv' = [inv EXCEPT ![i] =
                IF r.exc # NoExc /\ r.exc.status_code # 409
                THEN Done(s, Caught("create_collection", a.name, r.exc))
                ELSE Done(s, ToolResponse(
                       [message |-> "Collection '" \o a.name \o "' created successfully",
                        config |-> [name |-> a.name,
                                    vector_size |-> a.vector_size,
                                    distance |-> a.distance,
                                    on_disk |-> a.on_disk,
                                    hnsw_m |-> a.hnsw_m,
                                    hnsw_ef_construct |-> a.hnsw_ef_construct,
                                    sparse_enabled |-> a.enable_sparse]]))]
    /\ UNCHANGED <<cfgOk, client, constructed, attempts, hist>>

\* create_collection: the engine has created the collection (or refused).
create_collection_created(i, fault) ==
    /\ At(i, "create_collection", "creating")
    /\ LET s == inv[i]
           a == s.args
           r == Reply(fault, BkCreateCollection(backend, CreateRequest(a)))
       IN /\ backend' = r.backend
          /\ inv' = [inv EXCEPT ![i] =
                IF r.exc # NoExc THEN Done(s, Caught("create_collection", a.name, r.exc))
                ELSE Done(s, ToolResponse(
                       [message |-> "Collection '" \o a.name \o "' created successfully",
                        config |-> [name |-> a.name,
                                    vector_size |-> a.vector_size,
                                    distance |-> a.distance,
                                    on_disk |-> a.on_disk,
                                    hnsw_m |-> a.hnsw_m,
                                    hnsw_ef_construct |-> a.hnsw_ef_construct,
                                    sparse_enabled |-> a.enable_sparse]]))]
    /\ UNCHANGED <<cfgOk, client, constructed, attempts, hist>>

\* A delete_collection that does not look at `confirm`.
ConfirmedAlways(a) == TRUE

\* `if not confirm` fails: the caller confirmed.
Confirmed(a) == a.confirm

\* Tool 3: delete_collection, up to the existence listing.
delete_collection_start(i, a) ==
    /\ inv[i].pc = "idle"
    /\ ~Confirmed(a) \/ MayCallGetClient("collections")
    /\ IF ~Confirmed(a)
       THEN /\ inv' = [inv EXCEPT ![i] =
                  Done(Fresh("delete_collection", a),
                       ToolError("Deletion requires confirm=true to prevent accidental data loss"))]
            /\ UNCHANGED <<client, constructed, attempts>>
       ELSE LET gc == GetClient("collections")
                s == Holding(Fresh("delete_collection", a), gc)
            IN /\ StoreClient("collections", gc)
               /\ inv' = [inv EXCEPT ![i] =
                     IF gc.exc # NoExc
                     THEN Done(s, Caught("delete_collection", a.name, gc.exc))
                     ELSE Suspend(s, "exists_check", "get_collections", NoArgs, PyNoneMap)]
    /\ UNCHANGED <<cfgOk, backend, hist>>

\* delete_collection: the existence test, then the request for the point count.
delete_collection_checked(i, fault) ==
    /\ At(i, "delete_collection", "exists_check")
    /\ LET r == Reply(fault, BkGetCollections(backend))
           s == inv[i]
           a == s.args
       IN inv' = [inv EXCEPT ![i] =
             IF r.exc # NoExc THEN Done(s, Caught("delete_collection", a.name, r.exc))
             ELSE IF ~InSeq(a.name, r.resp.collections)
                  THEN Done(s, ToolError("Collection '" \o a.name \o "' does not exist"))
             ELSE Suspend(s, "counting", "get_collection", [collection_name |-> a.name],
                          PyNoneMap)]
    /\ UNCHANGED <<cfgOk, client, constructed, attempts, backend, hist>>

\* delete_collection: the point count arrives, then the delete request.
delete_collection_counted(i, fault) ==
    /\ At(i, "delete_collection", "counting")
    /\ LET s == inv[i]
           a == s.args
           r == Reply(fault, BkGetCollection(backend, a.name))
       IN inv' = [inv EXCEPT ![i] =
             IF r.exc # NoExc THEN Done(s, Caught("delete_collection", a.name, r.exc))
             ELSE Suspend(s, "deleting", "delete_collection", [collection_name |-> a.name],
                          [points_count |-> r.resp.points_count])]
    /\ UNCHANGED <<cfgOk, client, constructed, attempts, backend, hist>>

\* delete_collection: the engine has dropped the collection.
delete_collection_deleted(i, fault) ==
    /\ At(i, "delete_collection", "deleting")
    /\ LET s == inv[i]
           a == s.args
           r == Reply(fault, BkDeleteCollection(backend, a.name))
       IN /\ backend' = r.backend
          /\ inv' = [inv EXCEPT ![i] =
                IF r.exc # NoExc THEN Done(s, Caught("delete_collection", a.name, r.exc))
                ELSE Done(s, ToolResponse(
                       [message |-> "Collection '" \o a.name \o "' deleted successfully",
                        deleted_points |-> s.loc.points_count]))]
    /\ UNCHANGED <<cfgOk, client, constructed, attempts, hist>>

\* Tool 4: get_collection_info, up to the detail request.
get_collection_info_start(i, a) ==
    /\ inv[i].pc = "idle"
    /\ MayCallGetClient("collections")
    /\ LET gc == GetClient("collections")
           s == Holding(Fresh("get_collection_info", a), gc)
       IN /\ StoreClient("collections", gc)
          /\ inv' = [inv EXCEPT ![i] =
                IF gc.exc # NoExc
                THEN Done(s, Caught("get_collection_info", a.name, gc.exc))
                ELSE Suspend(s, "detail", "get_collection", [collection_name |-> a.name],
                             PyNoneMap)]
    /\ UNCHANGED <<cfgOk, backend, hist>>

\* get_collection_info: the detail arrives and is flattened.
get_collection_info_done(i, fault) ==
    /\ At(i, "get_collection_info", "detail")
    /\ LET s == inv[i]
           a == s.args
           r == Reply(fault, BkGetCollection(backend, a.name))
           c == r.resp.config
       IN inv' = [inv EXCEPT ![i] =
             IF r.exc # NoExc THEN Done(s, Caught("get_collection_info", a.name, r.exc))
             ELSE Done(s, ToolResponse(
                    [name |-> a.name,
                     status |-> r.resp.status,
                     points_count |-> r.resp.points_count,
                     vectors_config |-> [size |-> c.size, distance |-> c.distance,
                                         on_disk |-> c.on_disk],
                     hnsw_config |-> [m |-> c.m, ef_construct |-> c.ef_construct]]))]
    /\ UNCHANGED <<cfgOk, client, constructed, attempts, backend, hist>>

\* hnsw_config built whether or not one of its fields is given.
HnswDiffAlways(a) == [m |-> a.hnsw_m, ef_construct |-> a.hnsw_ef_construct]

\* optimizers_config with the engine's defaults in place of the fields not given.
OptimizersDiffDefaults(a) ==
    IF a.indexing_threshold # NoneInt \/ a.flush_interval_sec # NoneInt
    THEN [indexing_threshold |-> IF a.indexing_threshold # NoneInt
                                 THEN a.indexing_threshold
                                 ELSE DefaultOptimizers.indexing_threshold,
          flush_interval_sec |-> IF a.flush_interval_sec # NoneInt
                                 THEN a.flush_interval_sec
                                 ELSE DefaultOptimizers.flush_interval_sec]
    ELSE PyNoneMap

\* hnsw_config of update_collection: None unless one of its fields is given.
HnswDiff(a) ==
    IF a.hnsw_m # NoneInt \/ a.hnsw_ef_construct # NoneInt
    THEN [m |-> a.hnsw_m, ef_construct |-> a.hnsw_ef_construct]
    ELSE PyNoneMap

\* optimizers_config of update_collection: None unless one of its fields is given.
OptimizersDiff(a) ==
    IF a.indexing_threshold # NoneInt \/ a.flush_interval_sec # NoneInt
    THEN [indexing_threshold |-> a.indexing_threshold,
          flush_interval_sec |-> a.flush_interval_sec]
    ELSE PyNoneMap

UpdateRequest(a) ==
    [collection_name |-> a.name,
     hnsw_config |-> HnswDiff(a),
     optimizers_config |-> OptimizersDiff(a)]

\* Tool 5: update_collection, up to the update request.
update_collection_start(i, a) ==
    /\ inv[i].pc = "idle"
    /\ MayCallGetClient("collections")
    /\ LET gc == GetClient("collections")
           s == Holding(Fresh("update_collection", a), gc)
       IN /\ StoreClient("collections", gc)
          /\ inv' = [inv EXCEPT ![i] =
                IF gc.exc # NoExc
                THEN Done(s, Caught("update_collection", a.name, gc.exc))
                ELSE IF HnswDiff(a) = PyNoneMap /\ OptimizersDiff(a) = PyNoneMap
                     THEN Done(s, ToolError("No update parameters provided"))
                ELSE Suspend(s, "updating", "update_collection", UpdateRequest(a),
                             PyNoneMap)]
    /\ UNCHANGED <<cfgOk, backend, hist>>

\* update_collection: the engine has applied the diff.
update_collection_done(i, fault) ==
    /\ At(i, "update_collection", "updating")
    /\ LET s == inv[i]
           a == s.args
           r == Reply(fault, BkUpdateCollection(backend, UpdateRequest(a)))
       IN /\ backend' = r.backend
          /\ inv' = [inv EXCEPT ![i] =
                IF r.exc # NoExc THEN Done(s, Caught("update_collection", a.name, r.exc))
                ELSE Done(s, ToolResponse(
                       [message |-> "Collection '" \o a.name \o "' updated successfully",
                        updates |-> [hnsw_m |-> a.hnsw_m,
                                     hnsw_ef_construct |-> a.hnsw_ef_construct,
                                     indexing_threshold |-> a.indexing_threshold,
                                     flush_interval_sec |-> a.flush_interval_sec]]))]
    /\ UNCHANGED <<cfgOk, client, constructed, attempts, hist>>

(***************************************************************************)
(* Filters and points, on the engine's side.                               *)
(***************************************************************************)
EmptyMap == <<>>

\* An optional list argument: None, or the list.
NoneList == [given |-> FALSE, items |-> <<>>]
ListOf(items) == [given |-> TRUE, items |-> items]
ListTruthy(l) == l.given /\ l.items # <<>>

SetKey(map, key, value) ==
    [x \in DOMAIN map \cup {key} |-> IF x = key THEN value ELSE map[x]]

\* `if filter:` is true of a non-empty mapping only.
FilterTruthy(f) == f # PyNoneMap /\ DOMAIN f # {}

\* qmodels.Filter(**filter) accepts the mapping: known clauses, each condition on a field.
FilterParses(f) ==
    /\ DOMAIN f \subseteq {"must", "should", "must_not", "min_should"}
    /\ \A c \in DOMAIN f : \A k \in 1..Len(f[c]) : "key" \in DOMAIN f[c][k]

FilterError == PyException("ValidationError", "validation error for Filter")

CondHolds(c, payload) ==
    /\ "match" \in DOMAIN c
    /\ c.key \in DOMAIN payload
    /\ payload[c.key] = c.match

Clause(f, key) == IF key \in DOMAIN f THEN f[key] ELSE <<>>

\* The engine's reading of a filter; no filter matches every point.
Matches(f, payload) ==
    \/ f = PyNoneMap
    \/ /\ \A k \in 1..Len(Clause(f, "must")) : CondHolds(f.must[k], payload)
       /\ \A k \in 1..Len(Clause(f, "must_not")) : ~CondHolds(f.must_not[k], payload)
       /\ \/ Clause(f, "should") = <<>>
          \/ \E k \in 1..Len(f.should) : CondHolds(f.should[k], payload)

\* The engine's order of point ids: integers first, then UUIDs.
IdOrder == <<I0, I1, I2, H2, H3, H1>>

Stored(b, name) == DOMAIN b[name].points

\* The ids of a collection that a filter selects, in the engine's order.
Selected(b, name, f) ==
    SelectSeq(IdOrder, LAMBDA u : u \in Stored(b, name) /\ Matches(f, b[name].points[u].payload))

\* client.count(collection_name, count_filter, exact)
BkCount(b, req) ==
    IF ~b[req.collection_name].exists THEN Raised(b, NotFound(req.collection_name))
    ELSE Answered(b, [count |-> Len(Selected(b, req.collection_name, req.count_filter))])

RECURSIVE Distinct(_)
Distinct(seq) ==
    IF seq = <<>> THEN <<>>
    ELSE LET rest == Distinct(SubSeq(seq, 1, Len(seq) - 1))
         IN IF InSeq(seq[Len(seq)], rest) THEN rest ELSE Append(rest, seq[Len(seq)])

\* A point as the engine returns it.
Record(b, name, u) ==
    [id |-> u, payload |-> b[name].points[u].payload, vector |-> b[name].points[u].vector]

\* client.retrieve(collection_name, ids, ...): the stored points among the ids.
BkRetrieve(b, req) ==
    IF ~b[req.collection_name].exists THEN Raised(b, NotFound(req.collection_name))
    ELSE LET asked == Distinct([k \in DOMAIN req.ids |-> CanonicalId(req.ids[k])])
             found == SelectSeq(asked, LAMBDA u : u \in Stored(b, req.collection_name))
         IN Answered(b, [k \in DOMAIN found |-> Record(b, req.collection_name, found[k])])

PositionOf(u) == CHOOSE k \in 1..Len(IdOrder) : IdOrder[k] = u

\* client.scroll(collection_name, limit, offset, scroll_filter, ...): a page
\* from the offset on, and the id the next page starts at.
BkScrollPage(b, req) ==
    LET all == Selected(b, req.collection_name, req.scroll_filter)
        from == IF req.offset = PyNone THEN 1 ELSE PositionOf(req.offset)
        rest == SelectSeq(all, LAMBDA u : PositionOf(u) >= from)
        page == SubSeq(rest, 1, IF Len(rest) < req.limit THEN Len(rest) ELSE req.limit)
    IN Answered(b, [points |-> [k \in DOMAIN page |-> Record(b, req.collection_name, page[k])],
                    next_offset |-> IF Len(rest) > req.limit
                                    THEN rest[req.limit + 1] ELSE PyNone])

BkScroll(b, req) ==
    IF ~b[req.collection_name].exists THEN Raised(b, NotFound(req.collection_name))
    ELSE IF req.limit < 1 THEN Raised(b, BadRequest("limit must be at least 1"))
    ELSE IF req.offset # PyNone /\ ~InSeq(req.offset, IdOrder)
         THEN Raised(b, BadRequest("offset is not a point id"))
    ELSE BkScrollPage(b, req)

RECURSIVE Written(_, _)
\* The points of a collection after a batch is written in order.
Written(points, batch) ==
    IF batch = <<>> THEN points
    ELSE LET p == Head(batch)
         IN Written(SetKey(points, CanonicalId(p.id),
                           [payload |-> p.payload, vector |-> p.vector]),
                    Tail(batch))

\* client.upsert(collection_name, points, wait)
BkUpsert(b, req) ==
    IF ~b[req.collection_name].exists THEN Raised(b, NotFound(req.collection_name))
    ELSE IF \E k \in DOMAIN req.points : req.points[k].vector.slot # DefaultVectorName
         THEN Raised(b, BadRequest("Not existing vector name"))
    ELSE Answered([b EXCEPT ![req.collection_name].points = Written(@, req.points)],
                  [status |-> "completed"])

\* client.scroll against an engine that serves a page of size 0: no points,
\* and the id the listing starts at as the next offset.
BkScrollUnvalidated(b, req) ==
    IF /\ b[req.collection_name].exists
       /\ req.limit = 0
       /\ req.offset = PyNone \/ InSeq(req.offset, IdOrder)
    THEN BkScrollPage(b, req)
    ELSE BkScroll(b, req)

\* Another client of the engine writes a point of its own under an integer id.
other_client_upsert(name, id) ==
    /\ backend[name].exists
    /\ id \notin Stored(backend, name)
    /\ backend' = [backend EXCEPT ![name].points =
                      SetKey(@, id, [payload |-> [topic |-> "a"],
                                     vector |-> [slot |-> DefaultVectorName, val |-> "v1"]])]
    /\ UNCHANGED <<cfgOk, client, constructed, attempts, inv, hist>>

Without(points, gone) == [u \in DOMAIN points \ gone |-> points[u]]

\* client.delete(collection_name, points_selector, wait)
BkDelete(b, req) ==
    IF req.points_selector.kind = "none"
    THEN Raised(b, PyException("ValueError", "Unsupported points selector type"))
    ELSE IF ~b[req.collection_name].exists THEN Raised(b, NotFound(req.collection_name))
    ELSE LET sel == req.points_selector
             gone == IF sel.kind = "ids"
                     THEN {CanonicalId(sel.points[k]) : k \in DOMAIN sel.points}
                     ELSE {u \in Stored(b, req.collection_name) :
                             Matches(sel.filter, b[req.collection_name].points[u].payload)}
         IN Answered([b EXCEPT ![req.collection_name].points = Without(@, gone)],
                     [status |-> "completed"])

(***************************************************************************)
(* tools/points.py                                                         *)
(***************************************************************************)
\* A `Filter(**filter)` block that hands every non-empty filter on.
BuildFilterUnchecked(f) ==
    IF ~FilterTruthy(f) THEN [ok |-> TRUE, filter |-> PyNoneMap]
    ELSE [ok |-> TRUE, filter |-> f]

\* The `if filter: try: qmodels.Filter(**filter) except: return ToolError` block:
\* the filter to send, or the envelope to return.
BuildFilter(f) ==
    IF ~FilterTruthy(f) THEN [ok |-> TRUE, filter |-> PyNoneMap]
    ELSE IF FilterParses(f) THEN [ok |-> TRUE, filter |-> f]
    ELSE [ok |-> FALSE, filter |-> PyNoneMap]

InvalidFilter == ToolError("Invalid filter format: " \o FilterError.text)

\* Tool 1: count_points, up to the count request.
count_points_start(i, a) ==
    /\ inv[i].pc = "idle"
    /\ MayCallGetClient("points")
    /\ LET gc == GetClient("points")
           s == Holding(Fresh("count_points", a), gc)
           bf == BuildFilter(a.filter)
       IN /\ StoreClient("points", gc)
          /\ inv' = [inv EXCEPT ![i] =
                IF gc.exc # NoExc THEN Done(s, Caught("count_points", a.collection, gc.exc))
                ELSE IF ~bf.ok THEN Done(s, InvalidFilter)
                ELSE Suspend(s, "counting", "count",
                             [collection_name |-> a.collection, count_filter |-> bf.filter,
                              exact |-> a.exact], PyNoneMap)]
    /\ UNCHANGED <<cfgOk, backend, hist>>

LastReq(s) == s.calls[Len(s.calls)].req

\* count_points: the count arrives.
count_points_done(i, fault) ==
    /\ At(i, "count_points", "counting")
    /\ LET s == inv[i]
           a == s.args
           r == Reply(fault, BkCount(backend, LastReq(s)))
       IN inv' = [inv EXCEPT ![i] =
             IF r.exc # NoExc THEN Done(s, Caught("count_points", a.collection, r.exc))
             ELSE Done(s, ToolResponse([collection |-> a.collection,
                                        count |-> r.resp.count,
                                        exact |-> a.exact]))]
    /\ UNCHANGED <<cfgOk, client, constructed, attempts, backend, hist>>

\* The point_data dict built from a returned record.
PointData(rec, with_payload, with_vector) ==
    LET keys == {"id"}
                \cup (IF with_payload /\ rec.payload # EmptyMap THEN {"payload"} ELSE {})
                \cup (IF with_vector THEN {"vector"} ELSE {})
    IN [k \in keys |-> CASE k = "id" -> PyStr(rec.id)
                         [] k = "payload" -> rec.payload
                         [] OTHER -> rec.vector]

\* Tool 2: get_points, up to the retrieve request.
get_points_start(i, a) ==
    /\ inv[i].pc = "idle"
    /\ MayCallGetClient("points")
    /\ LET gc == GetClient("points")
           s == Holding(Fresh("get_points", a), gc)
       IN /\ StoreClient("points", gc)
          /\ inv' = [inv EXCEPT ![i] =
                IF gc.exc # NoExc THEN Done(s, Caught("get_points", a.collection, gc.exc))
                ELSE IF \E k \in DOMAIN a.ids : ToUuidFails(a.ids[k])
                     THEN Done(s, Caught("get_points", a.collection, UnicodeEncodeError))
                ELSE Suspend(s, "retrieving", "retrieve",
                             [collection_name |-> a.collection,
                              ids |-> [k \in DOMAIN a.ids |-> ToUuid(a.ids[k])],
                              with_payload |-> a.with_payload,
                              with_vectors |-> a.with_vector], PyNoneMap)]
    /\ UNCHANGED <<cfgOk, backend, hist>>

\* get_points: the records arrive.
get_points_done(i, fault) ==
    /\ At(i, "get_points", "retrieving")
    /\ LET s == inv[i]
           a == s.args
           r == Reply(fault, BkRetrieve(backend, LastReq(s)))
           points == [k \in DOMAIN r.resp |->
                         PointData(r.resp[k], a.with_payload, a.with_vector)]
       IN inv' = [inv EXCEPT ![i] =
             IF r.exc # NoExc THEN Done(s, Caught("get_points", a.collection, r.exc))
             ELSE Done(s, ToolResponse([collection |-> a.collection,
                                        points |-> points,
                                        found_count |-> Len(points),
                                        requested_count |-> Len(a.ids)]))]
    /\ UNCHANGED <<cfgOk, client, constructed, attempts, backend, hist>>

\* The declared range of scroll_points' limit: Field(ge=1, le=1000).
ScrollLimitMax == 1000

\* Tool 3: scroll_points, up to the scroll request.
scroll_points_start(i, a) ==
    /\ inv[i].pc = "idle"
    /\ MayCallGetClient("points")
    /\ LET gc == GetClient("points")
           s == Holding(Fresh("scroll_points", a), gc)
           bf == BuildFilter(a.filter)
       IN /\ StoreClient("points", gc)
          /\ inv' = [inv EXCEPT ![i] =
                IF gc.exc # NoExc THEN Done(s, Caught("scroll_points", a.collection, gc.exc))
                ELSE IF ~bf.ok THEN Done(s, InvalidFilter)
                ELSE Suspend(s, "scrolling", "scroll",
                             [collection_name |-> a.collection,
                              limit |-> a.limit,
                              offset |-> a.offset,
                              scroll_filter |-> bf.filter,
                              with_payload |-> a.with_payload,
                              with_vectors |-> a.with_vector], PyNoneMap)]
    /\ UNCHANGED <<cfgOk, backend, hist>>

\* bool(next_offset) of `str(next_offset) if next_offset else None`
OffsetTruthy(next_offset) ==
    next_offset # PyNone /\ next_offset # "" /\ next_offset # I0

\* scroll_points from the answer of client.scroll on: the points of the page,
\* the next offset and has_more.
scroll_points_reply(i, r) ==
    /\ At(i, "scroll_points", "scrolling")
    /\ LET s == inv[i]
           a == s.args
           points == [k \in DOMAIN r.resp.points |->
                         PointData(r.resp.points[k], a.with_payload, a.with_vector)]
       IN inv' = [inv EXCEPT ![i] =
             IF r.exc # NoExc THEN Done(s, Caught("scroll_points", a.collection, r.exc))
             ELSE Done(s, ToolResponse(
                    [collection |-> a.collection,
                     points |-> points,
                     count |-> Len(points),
                     next_offset |-> IF OffsetTruthy(r.resp.next_offset)
                                     THEN PyStr(r.resp.next_offset) ELSE PyNone,
                     has_more |-> r.resp.next_offset # PyNone]))]
    /\ UNCHANGED <<cfgOk, client, constructed, attempts, backend, hist>>

\* scroll_points: the page arrives, from the engine as it is.
scroll_points_done(i, fault) ==
    /\ At(i, "scroll_points", "scrolling")
    /\ scroll_points_reply(i, Reply(fault, BkScroll(backend, LastReq(inv[i]))))

\* `"id" not in p or "vector" not in p` is false of the point.
PointIsValid(p) == "id" \in DOMAIN p /\ "vector" \in DOMAIN p

\* A payload that keeps the caller's original_id when there is one.
StampedKeepingCallers(payload, id) ==
    IF "original_id" \in DOMAIN payload THEN payload ELSE SetKey(payload, "original_id", id)

\* payload["original_id"] = p["id"]
Stamped(payload, id) == SetKey(payload, "original_id", id)

RECURSIVE BuildPointsSkipping(_, _, _)
\* An upsert loop that leaves the malformed points out and writes the others.
BuildPointsSkipping(points, k, acc) ==
    IF k > Len(points) THEN [kind |-> "built", points |-> acc, exc |-> NoExc]
    ELSE LET p == points[k]
         IN IF ~PointIsValid(p) THEN BuildPointsSkipping(points, k + 1, acc)
            ELSE BuildPointsSkipping(points, k + 1,
                   Append(acc, [id |-> ToUuid(p.id),
                                vector |-> [slot |-> DefaultVectorName, val |-> p.vector.val],
                                payload |-> Stamped(IF "payload" \in DOMAIN p
                                                    THEN p.payload ELSE EmptyMap, p.id)]))

RECURSIVE BuildPoints(_, _, _)
\* The loop of upsert_points over points[k..]: the PointStructs, the envelope it
\* returns early, or the exception it raises.
BuildPoints(points, k, acc) ==
    IF k > Len(points) THEN [kind |-> "built", points |-> acc, exc |-> NoExc]
    ELSE LET p == points[k]
         IN IF ~PointIsValid(p) THEN [kind |-> "invalid", points |-> <<>>, exc |-> NoExc]
            ELSE IF ToUuidFails(p.id)
            THEN [kind |-> "raised", points |-> <<>>, exc |-> UnicodeEncodeError]
            ELSE LET payload == IF "payload" \in DOMAIN p THEN p.payload ELSE EmptyMap
                     vector == IF p.vector.type = "list"
                               THEN [type |-> "dict", slot |-> DefaultVectorName,
                                     val |-> p.vector.val]
                               ELSE p.vector
                 IN IF payload = PyNoneMap
                    THEN [kind |-> "raised", points |-> <<>>,
                          exc |-> PyException("TypeError",
                                     "'NoneType' object does not support item assignment")]
                    ELSE IF vector.type # "dict"
                    THEN [kind |-> "raised", points |-> <<>>,
                          exc |-> PyException("ValidationError",
                                     "validation error for PointStruct")]
                    ELSE BuildPoints(points, k + 1,
                           Append(acc, [id |-> ToUuid(p.id),
                                        vector |-> [slot |-> vector.slot, val |-> vector.val],
                                        payload |-> Stamped(payload, p.id)]))

\* Tool 4: upsert_points, up to the upsert request.
upsert_points_start(i, a) ==
    /\ inv[i].pc = "idle"
    /\ MayCallGetClient("points")
    /\ LET gc == GetClient("points")
           s == Holding(Fresh("upsert_points", a), gc)
           built == BuildPoints(a.points, 1, <<>>)
       IN /\ StoreClient("points", gc)
          /\ inv' = [inv EXCEPT ![i] =
                IF gc.exc # NoExc THEN Done(s, Caught("upsert_points", a.collection, gc.exc))
                ELSE IF a.points = <<>> THEN Done(s, ToolError("No points provided"))
                ELSE IF built.kind = "invalid"
                     THEN Done(s, ToolError("Each point must have 'id' and 'vector' fields"))
                ELSE IF built.kind = "raised"
                     THEN Done(s, Caught("upsert_points", a.collection, built.exc))
                ELSE Suspend(s, "upserting", "upsert",
                             [collection_name |-> a.collection,
                              points |-> built.points,
                              wait |-> a.wait], PyNoneMap)]
    /\ UNCHANGED <<cfgOk, backend, hist>>

\* upsert_points: the engine has written the batch.
upsert_points_done(i, fault) ==
    /\ At(i, "upsert_points", "upserting")
    /\ LET s == inv[i]
           a == s.args
           r == Reply(fault, BkUpsert(backend, LastReq(s)))
       IN /\ backend' = r.backend
          /\ inv' = [inv EXCEPT ![i] =
                IF r.exc # NoExc THEN Done(s, Caught("upsert_points", a.collection, r.exc))
                ELSE Done(s, ToolResponse([collection |-> a.collection,
                                           upserted_count |-> Len(LastReq(s).points),
                                           operation |-> "upsert"]))]
    /\ UNCHANGED <<cfgOk, client, constructed, attempts, hist>>

NoSelector == [kind |-> "none", points |-> <<>>, filter |-> PyNoneMap]

\* A selector that prefers the filter when both are given.
PointsSelectorFilterFirst(ids, f) ==
    IF FilterTruthy(f)
    THEN IF FilterParses(f)
         THEN [ok |-> TRUE, selector |-> [kind |-> "filter", points |-> <<>>, filter |-> f]]
         ELSE [ok |-> FALSE, selector |-> NoSelector]
    ELSE IF ListTruthy(ids)
    THEN [ok |-> TRUE,
          selector |-> [kind |-> "ids",
                        points |-> [k \in DOMAIN ids.items |-> ToUuid(ids.items[k])],
                        filter |-> PyNoneMap]]
    ELSE [ok |-> TRUE, selector |-> NoSelector]

\* The `if ids: ... elif filter: ...` block of delete_points: the selector, or
\* the invalid-filter return.
PointsSelector(ids, f) ==
    IF ListTruthy(ids)
    THEN [ok |-> TRUE,
          selector |-> [kind |-> "ids",
                        points |-> [k \in DOMAIN ids.items |-> ToUuid(ids.items[k])],
                        filter |-> PyNoneMap]]
    ELSE IF FilterTruthy(f)
    THEN IF FilterParses(f)
         THEN [ok |-> TRUE, selector |-> [kind |-> "filter", points |-> <<>>, filter |-> f]]
         ELSE [ok |-> FALSE, selector |-> NoSelector]
    ELSE [ok |-> TRUE, selector |-> NoSelector]

\* A delete_points without the test for missing ids and filter.
LacksSelectorNever(ids, f) == FALSE

\* ids is None and filter is None
LacksSelector(ids, f) == ~ids.given /\ f = PyNoneMap

\* Tool 5: delete_points, up to the delete request.
delete_points_start(i, a) ==
    /\ inv[i].pc = "idle"
    /\ MayCallGetClient("points")
    /\ LET gc == GetClient("points")
           s == Holding(Fresh("delete_points", a), gc)
           ps == PointsSelector(a.ids, a.filter)
       IN /\ StoreClient("points", gc)
          /\ inv' = [inv EXCEPT ![i] =
                IF gc.exc # NoExc THEN Done(s, Caught("delete_points", a.collection, gc.exc))
                ELSE IF LacksSelector(a.ids, a.filter) 
                     THEN Done(s, ToolError("Either 'ids' or 'filter' must be provided"))
                ELSE IF ListTruthy(a.ids) /\ \E k \in DOMAIN a.ids.items : ToUuidFails(a.ids.items[k])
                     THEN Done(s, Caught("delete_points", a.collection, UnicodeEncodeError))
                ELSE IF ~ps.ok THEN Done(s, InvalidFilter)
                ELSE Suspend(s, "deleting", "delete",
                             [collection_name |-> a.collection,
                              points_selector |-> ps.selector,
                              wait |-> a.wait], PyNoneMap)]
    /\ UNCHANGED <<cfgOk, backend, hist>>

\* delete_points: the engine has deleted the selection.
delete_points_done(i, fault) ==
    /\ At(i, "delete_points", "deleting")
    /\ LET s == inv[i]
           a == s.args
           r == Reply(fault, BkDelete(backend, LastReq(s)))
       IN /\ backend' = r.backend
          /\ inv' = [inv EXCEPT ![i] =
                IF r.exc # NoExc THEN Done(s, Caught("delete_points", a.collection, r.exc))
                ELSE Done(s, ToolResponse(
                       [collection |-> a.collection,
                        operation |-> "delete",
                        deleted_by |-> IF ListTruthy(a.ids) THEN "ids" ELSE "filter",
                        ids_count |-> IF ListTruthy(a.ids) THEN Len(a.ids.items)
                                      ELSE NoneInt]))]
    /\ UNCHANGED <<cfgOk, client, constructed, attempts, hist>>

(***************************************************************************)
(* Similarity, on the engine's side.                                       *)
(***************************************************************************)
\* Similarity of a query vector and a stored one, in tenths.
Score(query, stored) == IF query = stored THEN 10 ELSE 4

\* The best `limit` of the scored ids at or above the threshold, best first.
Ranked(scored, limit, threshold) ==
    LET kept == SelectSeq(scored, LAMBDA h : threshold = NoneInt \/ h.score >= threshold)
        sorted == SortSeq(kept, LAMBDA x, y : x.score > y.score)
    IN SubSeq(sorted, 1, IF Len(sorted) < limit THEN Len(sorted) ELSE limit)

Hit(b, name, u, score) ==
    [id |-> u, score |-> score, payload |-> b[name].points[u].payload,
     vector |-> b[name].points[u].vector]

\* One similarity query against a collection.
Search(b, name, q) ==
    LET among == Selected(b, name, q.filter)
        scored == [k \in DOMAIN among |->
                      [id |-> among[k],
                       score |-> Score(q.vector, b[name].points[among[k]].vector.val)]]
        top == Ranked(scored, q.limit, q.score_threshold)
    IN [k \in DOMAIN top |-> Hit(b, name, top[k].id, top[k].score)]

\* client.search(collection_name, query_vector, limit, score_threshold, query_filter, ...)
BkSearch(b, req) ==
    IF ~b[req.collection_name].exists THEN Raised(b, NotFound(req.collection_name))
    ELSE IF req.vector_name # DefaultVectorName
         THEN Raised(b, BadRequest("Not existing vector name"))
    ELSE IF req.query.limit < 1 THEN Raised(b, BadRequest("limit must be at least 1"))
    ELSE Answered(b, Search(b, req.collection_name, req.query))

\* client.search_batch(collection_name, requests): one answer per request, in order.
BkSearchBatch(b, req) ==
    IF ~b[req.collection_name].exists THEN Raised(b, NotFound(req.collection_name))
    ELSE IF req.vector_name # DefaultVectorName
         THEN Raised(b, BadRequest("Not existing vector name"))
    ELSE IF \E k \in DOMAIN req.requests : req.requests[k].limit < 1
         THEN Raised(b, BadRequest("limit must be at least 1"))
    ELSE Answered(b, [k \in DOMAIN req.requests |->
                         Search(b, req.collection_name, req.requests[k])])

\* client.recommend(collection_name, positive, negative, ...): the engine takes
\* point ids only, and the examples must be stored.
BkRecommend(b, req) ==
    LET name == req.collection_name
        examples == req.positive \o req.negative
    IN IF ~b[name].exists THEN Raised(b, NotFound(name))
       ELSE IF \E k \in DOMAIN examples : ~ParsesAsUuid(examples[k])
            THEN Raised(b, BadRequest("value is not a valid point ID"))
       ELSE IF \E k \in DOMAIN examples : CanonicalId(examples[k]) \notin Stored(b, name)
            THEN Raised(b, UnexpectedResponse(404, "Not found: No point with id found"))
       ELSE IF req.using # DefaultVectorName
            THEN Raised(b, BadRequest("Not existing vector name"))
       ELSE IF req.limit < 1 THEN Raised(b, BadRequest("limit must be at least 1"))
       ELSE LET given == {CanonicalId(examples[k]) : k \in DOMAIN examples}
                like == b[name].points[CanonicalId(req.positive[1])].vector.val
                among == SelectSeq(Selected(b, name, req.query_filter),
                                   LAMBDA u : u \notin given)
                scored == [k \in DOMAIN among |->
                              [id |-> among[k],
                               score |-> Score(like, b[name].points[among[k]].vector.val)]]
                top == Ranked(scored, req.limit, req.score_threshold)
            IN Answered(b, [k \in DOMAIN top |-> Hit(b, name, top[k].id, top[k].score)])

(***************************************************************************)
(* tools/search.py                                                         *)
(***************************************************************************)
\* A search result built from a scored point.
ResultData(hit, with_payload, with_vector) ==
    LET keys == {"id", "score"}
                \cup (IF with_payload /\ hit.payload # EmptyMap THEN {"payload"} ELSE {})
                \cup (IF with_vector THEN {"vector"} ELSE {})
    IN [k \in keys |-> CASE k = "id" -> PyStr(hit.id)
                         [] k = "score" -> hit.score
                         [] k = "payload" -> hit.payload
                         [] OTHER -> hit.vector]

NamedVectorError == PyException("ValidationError", "validation error for NamedVector")

\* The declared range of search_vectors' limit: Field(ge=1, le=100).
SearchLimitMax == 100

\* Tool 1: search_vectors, up to the search request.
search_vectors_start(i, a) ==
    /\ inv[i].pc = "idle"
    /\ MayCallGetClient("search")
    /\ LET gc == GetClient("search")
           s == Holding(Fresh("search_vectors", a), gc)
           bf == BuildFilter(a.filter)
       IN /\ StoreClient("search", gc)
          /\ inv' = [inv EXCEPT ![i] =
                IF gc.exc # NoExc THEN Done(s, Caught("search_vectors", a.collection, gc.exc))
                ELSE IF ~bf.ok THEN Done(s, InvalidFilter)
                ELSE IF a.vector.type # "list"
                     THEN Done(s, Caught("search_vectors", a.collection, NamedVectorError))
                ELSE Suspend(s, "searching", "search",
                             [collection_name |-> a.collection,
                              vector_name |-> a.vector_name,
                              query |-> [vector |-> a.vector.val,
                                         limit |-> a.limit,
                                         score_threshold |-> a.score_threshold,
                                         filter |-> bf.filter],
                              with_payload |-> a.with_payload,
                              with_vectors |-> a.with_vector], PyNoneMap)]
    /\ UNCHANGED <<cfgOk, backend, hist>>

\* search_vectors handing the scored points over last first.
search_vectors_done_reversed(i, fault) ==
    /\ At(i, "search_vectors", "searching")
    /\ LET s == inv[i]
           a == s.args
           r == Reply(fault, BkSearch(backend, LastReq(s)))
           n == Len(r.resp)
           results == [k \in DOMAIN r.resp |->
                          ResultData(r.resp[n + 1 - k], a.with_payload, a.with_vector)]
       IN inv' = [inv EXCEPT ![i] =
             IF r.exc # NoExc THEN Done(s, Caught("search_vectors", a.collection, r.exc))
             ELSE Done(s, ToolResponse([collection |-> a.collection,
                                        results |-> results,
                                        count |-> Len(results),
                                        vector_name |-> a.vector_name,
                                        score_threshold |-> a.score_threshold]))]
    /\ UNCHANGED <<cfgOk, client, constructed, attempts, backend, hist>>

\* search_vectors: the scored points arrive.
search_vectors_done(i, fault) ==
    /\ At(i, "search_vectors", "searching")
    /\ LET s == inv[i]
           a == s.args
           r == Reply(fault, BkSearch(backend, LastReq(s)))
           results == [k \in DOMAIN r.resp |->
                          ResultData(r.resp[k], a.with_payload, a.with_vector)]
       IN inv' = [inv EXCEPT ![i] =
             IF r.exc # NoExc THEN Done(s, Caught("search_vectors", a.collection, r.exc))
             ELSE Done(s, ToolResponse([collection |-> a.collection,
                                        results |-> results,
                                        count |-> Len(results),
                                        vector_name |-> a.vector_name,
                                        score_threshold |-> a.score_threshold]))]
    /\ UNCHANGED <<cfgOk, client, constructed, attempts, backend, hist>>

DefaultBatchLimit == 10

RECURSIVE BuildRequestsOneLimit(_, _, _)
\* The loop of search_batch giving every request the limit of the first query.
BuildRequestsOneLimit(queries, k, acc) ==
    IF k > Len(queries) THEN [kind |-> "built", requests |-> acc, exc |-> NoExc]
    ELSE LET q == queries[k]
             f == IF "filter" \in DOMAIN q THEN q.filter ELSE PyNoneMap
         IN IF "vector" \notin DOMAIN q
            THEN [kind |-> "invalid", requests |-> <<>>, exc |-> NoExc]
            ELSE IF q.vector.type # "list"
            THEN [kind |-> "raised", requests |-> <<>>, exc |-> NamedVectorError]
            ELSE IF FilterTruthy(f) /\ ~FilterParses(f)
            THEN [kind |-> "raised", requests |-> <<>>, exc |-> FilterError]
            ELSE BuildRequestsOneLimit(queries, k + 1,
                   Append(acc,
                     [vector |-> q.vector.val,
                      limit |-> IF "limit" \in DOMAIN queries[1]
                                THEN queries[1].limit ELSE DefaultBatchLimit,
                      score_threshold |-> IF "score_threshold" \in DOMAIN q
                                          THEN q.score_threshold ELSE NoneInt,
                      filter |-> IF FilterTruthy(f) THEN f ELSE PyNoneMap]))

RECURSIVE BuildRequests(_, _, _)
\* The loop of search_batch over queries[k..]: the SearchRequests, the envelope
\* it returns early, or the exception it raises.
BuildRequests(queries, k, acc) ==
    IF k > Len(queries) THEN [kind |-> "built", requests |-> acc, exc |-> NoExc]
    ELSE LET q == queries[k]
             f == IF "filter" \in DOMAIN q THEN q.filter ELSE PyNoneMap
         IN IF "vector" \notin DOMAIN q
            THEN [kind |-> "invalid", requests |-> <<>>, exc |-> NoExc]
            ELSE IF q.vector.type # "list"
            THEN [kind |-> "raised", requests |-> <<>>, exc |-> NamedVectorError]
            ELSE IF FilterTruthy(f) /\ ~FilterParses(f)
            THEN [kind |-> "raised", requests |-> <<>>, exc |-> FilterError]
            ELSE BuildRequests(queries, k + 1,
                   Append(acc,
                     [vector |-> q.vector.val,
                      limit |-> IF "limit" \in DOMAIN q THEN q.limit ELSE DefaultBatchLimit,
                      score_threshold |-> IF "score_threshold" \in DOMAIN q
                                          THEN q.score_threshold ELSE NoneInt,
                      filter |-> IF FilterTruthy(f) THEN f ELSE PyNoneMap]))

\* Tool 2: search_batch, up to the batch request.
search_batch_start(i, a) ==
    /\ inv[i].pc = "idle"
    /\ MayCallGetClient("search")
    /\ LET gc == GetClient("search")
           s == Holding(Fresh("search_batch", a), gc)
           built == BuildRequests(a.queries, 1, <<>>)
       IN /\ StoreClient("search", gc)
          /\ inv' = [inv EXCEPT ![i] =
                IF gc.exc # NoExc THEN Done(s, Caught("search_batch", a.collection, gc.exc))
                ELSE IF a.queries = <<>> THEN Done(s, ToolError("No queries provided"))
                ELSE IF built.kind = "invalid"
                     THEN Done(s, ToolError("Each query must have a 'vector' field"))
                ELSE IF built.kind = "raised"
                     THEN Done(s, Caught("search_batch", a.collection, built.exc))
                ELSE Suspend(s, "searching", "search_batch",
                             [collection_name |-> a.collection,
                              vector_name |-> a.vector_name,
                              requests |-> built.requests,
                              with_payload |-> a.with_payload], PyNoneMap)]
    /\ UNCHANGED <<cfgOk, backend, hist>>

\* search_batch: the answers arrive.
search_batch_done(i, fault) ==
    /\ At(i, "search_batch", "searching")
    /\ LET s == inv[i]
           a == s.args
           r == Reply(fault, BkSearchBatch(backend, LastReq(s)))
           batch == [q \in DOMAIN r.resp |->
                        [k \in DOMAIN r.resp[q] |->
                            ResultData(r.resp[q][k], a.with_payload, FALSE)]]
       IN inv' = [inv EXCEPT ![i] =
             IF r.exc # NoExc THEN Done(s, Caught("search_batch", a.collection, r.exc))
             ELSE Done(s, ToolResponse([collection |-> a.collection,
                                        batch_results |-> batch,
                                        query_count |-> Len(a.queries)]))]
    /\ UNCHANGED <<cfgOk, client, constructed, attempts, backend, hist>>

\* negative or [None]
OrNone(l) == IF ListTruthy(l) THEN l.items ELSE <<PyNone>>

\* negative or []
OrEmpty(l) == IF ListTruthy(l) THEN l.items ELSE <<>>

\* Tool 3: recommend_points, up to the recommend request.
recommend_points_start(i, a) ==
    /\ inv[i].pc = "idle"
    /\ MayCallGetClient("search")
    /\ LET gc == GetClient("search")
           s == Holding(Fresh("recommend_points", a), gc)
           bf == BuildFilter(a.filter)
       IN /\ StoreClient("search", gc)
          /\ inv' = [inv EXCEPT ![i] =
                IF gc.exc # NoExc
                THEN Done(s, Caught("recommend_points", a.collection, gc.exc))
                ELSE IF a.positive = <<>>
                     THEN Done(s, ToolError("At least one positive example is required"))
                ELSE IF ~bf.ok THEN Done(s, InvalidFilter)
                ELSE Suspend(s, "recommending", "recommend",
                             [collection_name |-> a.collection,
                              positive |-> a.positive,
                              negative |-> OrEmpty(a.negative),
                              limit |-> a.limit,
                              score_threshold |-> a.score_threshold,
                              query_filter |-> bf.filter,
                              using |-> a.vector_name,
                              with_payload |-> a.with_payload], PyNoneMap)]
    /\ UNCHANGED <<cfgOk, backend, hist>>

\* recommend_points: the recommendations arrive.
recommend_points_done(i, fault) ==
    /\ At(i, "recommend_points", "recommending")
    /\ LET s == inv[i]
           a == s.args
           r == Reply(fault, BkRecommend(backend, LastReq(s)))
           recs == [k \in DOMAIN r.resp |-> ResultData(r.resp[k], a.with_payload, FALSE)]
       IN inv' = [inv EXCEPT ![i] =
             IF r.exc # NoExc THEN Done(s, Caught("recommend_points", a.collection, r.exc))
             ELSE Done(s, ToolResponse([collection |-> a.collection,
                                        recommendations |-> recs,
                                        count |-> Len(recs),
                                        positive_examples |-> a.positive,
                                        negative_examples |-> OrEmpty(a.negative)]))]
    /\ UNCHANGED <<cfgOk, client, constructed, attempts, backend, hist>>

(***************************************************************************)
(* tools/admin.py                                                          *)
(***************************************************************************)
MaxWait == 60
PollInterval == 2

\* client.create_snapshot(collection_name, wait)
BkCreateSnapshot(b, req) ==
    IF ~b[req.collection_name].exists THEN Raised(b, NotFound(req.collection_name))
    ELSE Answered([b EXCEPT ![req.collection_name].snapshots = @ + 1],
                  [described |-> req.wait, name |-> "snapshot"])

\* client.list_snapshots(collection_name)
BkListSnapshots(b, req) ==
    IF ~b[req.collection_name].exists THEN Raised(b, NotFound(req.collection_name))
    ELSE Answered(b, [k \in 1..b[req.collection_name].snapshots |-> [name |-> "snapshot"]])

\* Tool 1: optimize_collection, up to the request for the statistics before.
optimize_collection_start(i, a) ==
    /\ inv[i].pc = "idle"
    /\ MayCallGetClient("admin")
    /\ LET gc == GetClient("admin")
           s == Holding(Fresh("optimize_collection", a), gc)
       IN /\ StoreClient("admin", gc)
          /\ inv' = [inv EXCEPT ![i] =
                IF gc.exc # NoExc
                THEN Done(s, Caught("optimize_collection", a.collection, gc.exc))
                ELSE Suspend(s, "info_before", "get_collection",
                             [collection_name |-> a.collection], PyNoneMap)]
    /\ UNCHANGED <<cfgOk, backend, hist>>

\* optimizer_config=OptimizersConfigDiff(indexing_threshold=0)
TriggerRequest(a) ==
    [collection_name |-> a.collection,
     hnsw_config |-> PyNoneMap,
     optimizers_config |-> [indexing_threshold |-> 0, flush_interval_sec |-> NoneInt]]

\* optimize_collection: the statistics arrive, then the trigger request.
optimize_collection_informed(i, fault) ==
    /\ At(i, "optimize_collection", "info_before")
    /\ LET s == inv[i]
           a == s.args
           r == Reply(fault, BkGetCollection(backend, a.collection))
       IN inv' = [inv EXCEPT ![i] =
             IF r.exc # NoExc
             THEN Done(s, Caught("optimize_collection", a.collection, r.exc))
             ELSE Suspend(s, "triggering", "update_collection", TriggerRequest(a),
                          [waited |-> 0])]
    /\ UNCHANGED <<cfgOk, client, constructed, attempts, backend, hist>>

\* The result dict of optimize_collection: as built before the loop, after the
\* loop's break, or after the loop's else.
OptimizeResult(a, outcome) ==
    CASE outcome = "triggered" ->
            [collection |-> a.collection, operation |-> "optimize",
             optimization_triggered |-> TRUE]
      [] outcome = "complete" ->
            [collection |-> a.collection, operation |-> "optimize",
             optimization_triggered |-> TRUE, optimization_complete |-> TRUE]
      [] OTHER ->
            [collection |-> a.collection, operation |-> "optimize",
             optimization_triggered |-> TRUE, optimization_complete |-> FALSE,
             message |-> "Optimization still in progress"]

\* One turn of the loop with a failure where the loop's else is.
PollOrFail(s, waited) ==
    IF waited < MaxWait
    THEN Suspend(s, "polling", "get_collection", [collection_name |-> s.args.collection],
                 [waited |-> waited + PollInterval])
    ELSE Done(s, ToolError("Failed to optimize collection: timed out"))

\* One turn of `while waited < max_wait`: sleep and poll, or the loop's else.
PollOrGiveUp(s, waited) ==
    IF waited < MaxWait
    THEN Suspend(s, "polling", "get_collection", [collection_name |-> s.args.collection],
                 [waited |-> waited + PollInterval])
    ELSE Done(s, ToolResponse(OptimizeResult(s.args, "timeout")))

\* optimize_collection: the trigger is applied; with `wait` the loop starts.
optimize_collection_triggered(i, fault) ==
    /\ At(i, "optimize_collection", "triggering")
    /\ LET s == inv[i]
           a == s.args
           r == Reply(fault, BkUpdateCollection(backend, TriggerRequest(a)))
       IN /\ backend' = r.backend
          /\ inv' = [inv EXCEPT ![i] =
                IF r.exc # NoExc
                THEN Done(s, Caught("optimize_collection", a.collection, r.exc))
                ELSE IF a.wait THEN PollOrGiveUp(s, 0)
                ELSE Done(s, ToolResponse(OptimizeResult(a, "triggered")))]
    /\ UNCHANGED <<cfgOk, client, constructed, attempts, hist>>

\* optimize_collection: one poll answers, with the optimizer at rest or not.
optimize_collection_polled(i, fault, optimizerOk) ==
    /\ At(i, "optimize_collection", "polling")
    /\ LET s == inv[i]
           a == s.args
           r == Reply(fault, BkGetCollection(backend, a.collection))
       IN inv' = [inv EXCEPT ![i] =
             IF r.exc # NoExc
             THEN Done(s, Caught("optimize_collection", a.collection, r.exc))
             ELSE IF optimizerOk THEN Done(s, ToolResponse(OptimizeResult(a, "complete")))
             ELSE PollOrGiveUp(s, s.loc.waited)]
    /\ UNCHANGED <<cfgOk, client, constructed, attempts, backend, hist>>

\* Tool 2: create_snapshot, up to the request for the collection's metadata.
create_snapshot_start(i, a) ==
    /\ inv[i].pc = "idle"
    /\ MayCallGetClient("admin")
    /\ backend[a.collection].snapshots < MaxSnapshots
    /\ LET gc == GetClient("admin")
           s == Holding(Fresh("create_snapshot", a), gc)
       IN /\ StoreClient("admin", gc)
          /\ inv' = [inv EXCEPT ![i] =
                IF gc.exc # NoExc
                THEN Done(s, Caught("create_snapshot", a.collection, gc.exc))
                ELSE Suspend(s, "info", "get_collection",
                             [collection_name |-> a.collection], PyNoneMap)]
    /\ UNCHANGED <<cfgOk, backend, hist>>

\* create_snapshot: the metadata arrives, then the snapshot request.
create_snapshot_informed(i, fault) ==
    /\ At(i, "create_snapshot", "info")
    /\ LET s == inv[i]
           a == s.args
           r == Reply(fault, BkGetCollection(backend, a.collection))
       IN inv' = [inv EXCEPT ![i] =
             IF r.exc # NoExc THEN Done(s, Caught("create_snapshot", a.collection, r.exc))
             ELSE Suspend(s, "snapshotting", "create_snapshot",
                          [collection_name |-> a.collection, wait |-> a.wait],
                          [points_count |-> r.resp.points_count])]
    /\ UNCHANGED <<cfgOk, client, constructed, attempts, backend, hist>>

\* create_snapshot: the engine has taken (or queued) the snapshot.
create_snapshot_done(i, fault) ==
    /\ At(i, "create_snapshot", "snapshotting")
    /\ LET s == inv[i]
           a == s.args
           r == Reply(fault, BkCreateSnapshot(backend, LastReq(s)))
       IN /\ backend' = r.backend
          /\ inv' = [inv EXCEPT ![i] =
                IF r.exc # NoExc THEN Done(s, Caught("create_snapshot", a.collection, r.exc))
                ELSE Done(s, ToolResponse(
                       [collection |-> a.collection,
                        snapshot_name |-> IF r.resp.described THEN r.resp.name ELSE "pending",
                        points_count |-> s.loc.points_count,
                        status |-> IF a.wait /\ r.resp.described
                                   THEN "completed" ELSE "in_progress"]))]
    /\ UNCHANGED <<cfgOk, client, constructed, attempts, hist>>

\* Tool 3: list_snapshots, up to the listing request.
list_snapshots_start(i, a) ==
    /\ inv[i].pc = "idle"
    /\ MayCallGetClient("admin")
    /\ LET gc == GetClient("admin")
           s == Holding(Fresh("list_snapshots", a), gc)
       IN /\ StoreClient("admin", gc)
          /\ inv' = [inv EXCEPT ![i] =
                IF gc.exc # NoExc
                THEN Done(s, Caught("list_snapshots", a.collection, gc.exc))
                ELSE Suspend(s, "listing", "list_snapshots",
                             [collection_name |-> a.collection], PyNoneMap)]
    /\ UNCHANGED <<cfgOk, backend, hist>>

\* list_snapshots: the snapshots arrive.
list_snapshots_done(i, fault) ==
    /\ At(i, "list_snapshots", "listing")
    /\ LET s == inv[i]
           a == s.args
           r == Reply(fault, BkListSnapshots(backend, LastReq(s)))
       IN inv' = [inv EXCEPT ![i] =
             IF r.exc # NoExc THEN Done(s, Caught("list_snapshots", a.collection, r.exc))
             ELSE Done(s, ToolResponse([collection |-> a.collection,
                                        snapshots |-> r.resp,
                                        count |-> Len(r.resp)]))]
    /\ UNCHANGED <<cfgOk, client, constructed, attempts, backend, hist>>

\* What the GET on the engine's root URL does: a status code, or an exception.
ProbeOutcomes == {"200", "503", "error"}

\* The request httpx sends, outside the client handle.
Probe(s, pc, timeout) ==
    [s EXCEPT !.pc = pc,
              !.calls = Append(@, [call |-> "http_get_root", via |-> NoHandle,
                                   req |-> [timeout |-> timeout]])]

ClusterProbeTimeout == 10
HealthProbeTimeout == 5

\* Tool 4: get_cluster_info, up to the GET on the root URL.
get_cluster_info_start(i) ==
    /\ inv[i].pc = "idle"
    /\ MayCallGetClient("admin")
    /\ LET gc == GetClient("admin")
           s == Holding(Fresh("get_cluster_info", NoArgs), gc)
       IN /\ StoreClient("admin", gc)
          /\ inv' = [inv EXCEPT ![i] =
                IF gc.exc # NoExc THEN Done(s, Caught("get_cluster_info", "", gc.exc))
                ELSE Probe(s, "probing", ClusterProbeTimeout)]
    /\ UNCHANGED <<cfgOk, backend, hist>>

\* get_cluster_info: the root answer (or its exception, swallowed), then the listing request.
get_cluster_info_probed(i, outcome) ==
    /\ At(i, "get_cluster_info", "probing")
    /\ inv' = [inv EXCEPT ![i] =
          Suspend(inv[i], "listing", "get_collections", NoArgs,
                  [version |-> IF outcome = "200" THEN "1.x" ELSE "unknown"])]
    /\ UNCHANGED <<cfgOk, client, constructed, attempts, backend, hist>>

ClusterEnvelope(version, listed, summaries, total) ==
    ToolResponse([version |-> version,
                  collections_count |-> listed,
                  total_points |-> total,
                  collections |-> summaries])

\* get_cluster_info: the listing arrives; the loop asks for the first detail.
get_cluster_info_listed(i, fault) ==
    /\ At(i, "get_cluster_info", "listing")
    /\ LET r == Reply(fault, BkGetCollections(backend))
           s == inv[i]
           names == r.resp.collections
       IN inv' = [inv EXCEPT ![i] =
             IF r.exc # NoExc THEN Done(s, Caught("get_cluster_info", "", r.exc))
             ELSE IF names = <<>> THEN Done(s, ClusterEnvelope(s.loc.version, 0, <<>>, 0))
             ELSE Suspend(s, "detail", "get_collection", [collection_name |-> names[1]],
                          [version |-> s.loc.version, names |-> names, k |-> 1,
                           out |-> <<>>, total |-> 0])]
    /\ UNCHANGED <<cfgOk, client, constructed, attempts, backend, hist>>

\* get_cluster_info: one pass of the loop body, with its inner try/except.
get_cluster_info_detail(i, fault) ==
    /\ At(i, "get_cluster_info", "detail")
    /\ LET s == inv[i]
           l == s.loc
           name == l.names[l.k]
           r == Reply(fault, BkGetCollection(backend, name))
           entry == IF r.exc # NoExc
                    THEN [name |-> name, points |-> 0, status |-> "error"]
                    ELSE [name |-> name, points |-> r.resp.points_count,
                          status |-> r.resp.status]
           out == Append(l.out, entry)
           total == l.total + entry.points
       IN inv' = [inv EXCEPT ![i] =
             IF l.k = Len(l.names)
             THEN Done(s, ClusterEnvelope(l.version, Len(l.names), out, total))
             ELSE Suspend(s, "detail", "get_collection",
                          [collection_name |-> l.names[l.k + 1]],
                          [version |-> l.version, names |-> l.names, k |-> l.k + 1,
                           out |-> out, total |-> total])]
    /\ UNCHANGED <<cfgOk, client, constructed, attempts, backend, hist>>

\* Tool 5: health_check, up to the GET on the root URL.
health_check_start(i) ==
    /\ inv[i].pc = "idle"
    /\ MayCallGetClient("admin")
    /\ inv' = [inv EXCEPT ![i] =
          Probe(Fresh("health_check", NoArgs), "probing", HealthProbeTimeout)]
    /\ UNCHANGED <<cfgOk, client, constructed, attempts, backend, hist>>

\* health_check: the root answer; unreachable ends it, else get_client() and the API request.
health_check_probed(i, outcome) ==
    /\ At(i, "health_check", "probing")
    /\ IF outcome = "error"
       THEN /\ inv' = [inv EXCEPT ![i] =
                  Done(inv[i], ToolResponse([status |-> "unhealthy", http_ok |-> FALSE]))]
            /\ UNCHANGED <<client, constructed, attempts>>
       ELSE LET gc == GetClient("admin")
                s == Holding(inv[i], gc)
            IN /\ StoreClient("admin", gc)
               /\ inv' = [inv EXCEPT ![i] =
                     IF gc.exc # NoExc THEN Done(s, Caught("health_check", "", gc.exc))
                     ELSE Suspend(s, "api", "get_collections", NoArgs,
                                  [http_ok |-> outcome = "200"])]
    /\ UNCHANGED <<cfgOk, backend, hist>>

\* health_check calling the engine healthy as soon as the root URL answers 200.
health_check_done_reachable(i, fault) ==
    /\ At(i, "health_check", "api")
    /\ LET s == inv[i]
           r == Reply(fault, BkGetCollections(backend))
           api_ok == r.exc = NoExc
       IN inv' = [inv EXCEPT ![i] =
             Done(s, ToolResponse(
                [status |-> IF s.loc.http_ok THEN "healthy" ELSE "degraded",
                 http_ok |-> s.loc.http_ok,
                 api_ok |-> api_ok]))]
    /\ UNCHANGED <<cfgOk, client, constructed, attempts, backend, hist>>

\* health_check: the API request answers or raises; either way a report.
health_check_done(i, fault) ==
    /\ At(i, "health_check", "api")
    /\ LET s == inv[i]
           r == Reply(fault, BkGetCollections(backend))
           api_ok == r.exc = NoExc
       IN inv' = [inv EXCEPT ![i] =
             Done(s, ToolResponse(
                [status |-> IF s.loc.http_ok /\ api_ok THEN "healthy" ELSE "degraded",
                 http_ok |-> s.loc.http_ok,
                 api_ok |-> api_ok]))]
    /\ UNCHANGED <<cfgOk, client, constructed, attempts, backend, hist>>

\* server.py, GET /health: the status code and body made of health_check's envelope.
health_endpoint(result) ==
    IF result.status = "success"
    THEN [status_code |-> IF result.data.status = "healthy" THEN 200 ELSE 503,
          body |-> result.data]
    ELSE [status_code |-> 503, body |-> [status |-> "unhealthy"]]

(***************************************************************************)
(* The envelope crosses the invocation boundary.                           *)
(***************************************************************************)
Return(i) ==
    /\ inv[i].pc = "done"
    /\ inv' = [inv EXCEPT ![i] = Idle]
    /\ UNCHANGED <<cfgOk, client, constructed, attempts, backend, hist>>

NoHist == [op |-> "none", args |-> PyNoneMap, result |-> NoResult]

\* The same, with the exchange kept for the caller's next step.
ReturnLogged(i) ==
    /\ inv[i].pc = "done"
    /\ hist' = [op |-> inv[i].op, args |-> inv[i].args, result |-> inv[i].result]
    /\ inv' = [inv EXCEPT ![i] = Idle]
    /\ UNCHANGED <<cfgOk, client, constructed, attempts, backend>>

Init ==
    /\ cfgOk \in BOOLEAN
    /\ client = [m \in Modules |-> 0]
    /\ constructed = [m \in Modules |-> 0]
    /\ attempts = [m \in Modules |-> 0]
    /\ backend = EmptyBackend
    /\ inv = [i \in Slots |-> Idle]
    /\ hist = NoHist

(***************************************************************************)
(* The callers: the arguments they pass, the faults the engine shows them. *)
(***************************************************************************)
Faults == {"none"} \cup FaultKinds

Collection(name, distance) ==
    [name |-> name, vector_size |-> 384, distance |-> distance, on_disk |-> FALSE,
     hnsw_m |-> 16, hnsw_ef_construct |-> 100, enable_sparse |-> FALSE]

Deletion(name, confirm) == [name |-> name, confirm |-> confirm]

Update(name, hnsw_m, indexing_threshold) ==
    [name |-> name, hnsw_m |-> hnsw_m, hnsw_ef_construct |-> NoneInt,
     indexing_threshold |-> indexing_threshold, flush_interval_sec |-> NoneInt]

\* A vector argument: a list, a dict of named vectors, or something else.
ListVector(val) == [type |-> "list", slot |-> "", val |-> val]
OtherVector(type, slot) == [type |-> type, slot |-> slot, val |-> "v1"]

\* Points as callers write them: with or without a payload, an id, a vector.
Point(id, payload) == [id |-> id, vector |-> ListVector("v1"), payload |-> payload]
BarePoint(id, val) == [id |-> id, vector |-> ListVector(val)]
NoVector(id) == [id |-> id, payload |-> [topic |-> "a"]]
NoId == [vector |-> ListVector("v1")]

Topic(t) == [topic |-> t]
CallersOriginal == [original_id |-> "mine", topic |-> "a"]

Upsert(collection, points) == [collection |-> collection, points |-> points, wait |-> TRUE]

ByTopic(t) == [must |-> <<[key |-> "topic", match |-> t]>>]
UnknownClause == [bogus |-> <<>>]
KeylessCondition == [must |-> <<[match |-> "a"]>>]

Count(collection, f) == [collection |-> collection, exact |-> TRUE, filter |-> f]

Get(collection, ids, with_payload) ==
    [collection |-> collection, ids |-> ids, with_payload |-> with_payload,
     with_vector |-> FALSE]

Scroll(collection, limit, offset) ==
    [collection |-> collection, limit |-> limit, offset |-> offset, filter |-> PyNoneMap,
     with_payload |-> TRUE, with_vector |-> FALSE]

DeletePoints(collection, ids, f) ==
    [collection |-> collection, ids |-> ids, filter |-> f, wait |-> TRUE]

SearchArgs(collection, vector, limit) ==
    [collection |-> collection, vector |-> vector, limit |-> limit,
     score_threshold |-> NoneInt, filter |-> PyNoneMap, with_payload |-> TRUE,
     with_vector |-> FALSE, vector_name |-> DefaultVectorName]

Batch(collection, queries) ==
    [collection |-> collection, queries |-> queries, with_payload |-> TRUE,
     vector_name |-> DefaultVectorName]

Recommend(collection, positive) ==
    [collection |-> collection, positive |-> positive, negative |-> NoneList,
     limit |-> 3, score_threshold |-> NoneInt, filter |-> PyNoneMap,
     with_payload |-> TRUE, vector_name |-> DefaultVectorName]

Admin(collection, wait) == [collection |-> collection, wait |-> wait]

(***************************************************************************)
(* One caller at a time uses the collection tools; its last exchange is    *)
(* kept.                                                                   *)
(***************************************************************************)
\* The arguments of each specification are named sets: TLC evaluates a named
\* constant once, before its workers start, so that no record is shared unsorted.
CollectionCreates == {Collection(n, d) : n \in Names, d \in {"cosine", "Dot"}}
CollectionDeletes == {Deletion(n, c) : n \in Names, c \in BOOLEAN}
CollectionInfos == {[name |-> n] : n \in Names}
CollectionUpdates == {Update(n, m, NoneInt) : n \in Names, m \in {NoneInt, 32}}
CollectionUpserts == {Upsert(n, <<Point(D1, Topic("a"))>>) : n \in Names}

NextCollections ==
    \E i \in {1} :
        \/ list_collections_start(i)
        \/ \E f \in Faults : list_collections_listed(i, f)
        \/ \E f \in Faults : list_collections_detail(i, f)
        \/ \E a \in CollectionCreates : create_collection_start(i, a)
        \/ \E f \in Faults : create_collection_checked(i, f)
        \/ \E f \in Faults : create_collection_created(i, f)
        \/ \E a \in CollectionDeletes : delete_collection_start(i, a)
        \/ \E f \in Faults : delete_collection_checked(i, f)
        \/ \E f \in Faults : delete_collection_counted(i, f)
        \/ \E f \in Faults : delete_collection_deleted(i, f)
        \/ \E a \in CollectionInfos : get_collection_info_start(i, a)
        \/ \E f \in Faults : get_collection_info_done(i, f)
        \/ \E a \in CollectionUpdates : update_collection_start(i, a)
        \/ \E f \in Faults : update_collection_done(i, f)
        \/ \E a \in CollectionUpserts : upsert_points_start(i, a)
        \/ \E f \in Faults : upsert_points_done(i, f)
        \/ ReturnLogged(i)

SpecCollections == Init /\ [][NextCollections]_vars

(***************************************************************************)
(* One caller at a time uses all eighteen tools, with well-formed and      *)
(* ill-formed arguments.                                                   *)
(***************************************************************************)
ToolCreates == {Collection(n, "cosine") : n \in Names}
ToolDeletes == {Deletion("tmp", c) : c \in BOOLEAN}
ToolInfos == {[name |-> "kb"]}
ToolUpdates == {Update("kb", NoneInt, t) : t \in {NoneInt, 0}}
ToolCounts ==
    {Count("kb", f) : f \in {PyNoneMap, ByTopic("a"), UnknownClause, KeylessCondition}}
ToolGets == {Get("kb", ids, TRUE) : ids \in {<<D1>>, <<H2, D1>>}}
ToolFilters == {EmptyMap, ByTopic("a"), UnknownClause, KeylessCondition}
ToolScrolls ==
    {Scroll("kb", l, PyNone) : l \in {0, 1, ScrollLimitMax + 1}}
    \cup {[Scroll("kb", 1, PyNone) EXCEPT !.filter = f] : f \in ToolFilters}
ToolUpserts ==
    {Upsert("kb", ps) :
        ps \in {<<>>, <<Point(D1, Topic("a")), BarePoint(H2, "v2")>>,
                <<Point(D1, PyNoneMap)>>, <<BarePoint(D1, "v1"), NoId>>,
                <<[id |-> D1, vector |-> OtherVector("str", "")]>>,
                <<[id |-> D1, vector |-> OtherVector("dict", "image")]>>}}
ToolDeletePoints ==
    {DeletePoints("kb", ids, f) :
        ids \in {NoneList, ListOf(<<>>), ListOf(<<D1>>)},
        f \in {PyNoneMap, UnknownClause, KeylessCondition}}
ToolSearches ==
    {SearchArgs("kb", v, 2) : v \in {ListVector("v1"), OtherVector("dict", DefaultVectorName)}}
    \cup {SearchArgs("kb", ListVector("v1"), l) : l \in {0, 1, SearchLimitMax + 1}}
    \cup {[SearchArgs("kb", ListVector("v1"), 2) EXCEPT !.score_threshold = t] : t \in {4, 5}}
    \cup {[SearchArgs("kb", ListVector("v1"), 2) EXCEPT !.filter = f] : f \in ToolFilters}
ToolBatches ==
    {Batch("kb", qs) :
        qs \in {<<>>, <<[vector |-> ListVector("v1")]>>, <<[limit |-> 1]>>,
                <<[vector |-> ListVector("v2"), filter |-> UnknownClause]>>,
                <<[vector |-> ListVector("v1"), filter |-> ByTopic("a")],
                  [vector |-> ListVector("v2"), filter |-> KeylessCondition]>>,
                <<[vector |-> ListVector("v2"), limit |-> 1],
                  [vector |-> ListVector("v1"), score_threshold |-> 5],
                  [vector |-> ListVector("v2"), filter |-> ByTopic("a")]>>}}
ToolRecommends ==
    {Recommend("kb", pos) : pos \in {<<>>, <<H1>>, <<D1>>}}
    \cup {[Recommend("kb", <<H1>>) EXCEPT !.filter = f] : f \in ToolFilters}
    \cup {[Recommend("kb", pos) EXCEPT !.negative = ListOf(neg)] :
              pos \in {<<>>, <<H1>>}, neg \in {<<>>, <<H2>>}}
ToolAdmins == {Admin("kb", w) : w \in BOOLEAN}
ToolSnapshotLists == {[collection |-> "kb"]}

NextTools ==
    \E i \in {1} :
        \/ list_collections_start(i)
        \/ \E a \in ToolCreates : create_collection_start(i, a)
        \/ \E a \in ToolDeletes : delete_collection_start(i, a)
        \/ \E a \in ToolInfos : get_collection_info_start(i, a)
        \/ \E a \in ToolUpdates : update_collection_start(i, a)
        \/ \E a \in ToolCounts : count_points_start(i, a)
        \/ \E a \in ToolGets : get_points_start(i, a)
        \/ \E a \in ToolScrolls : scroll_points_start(i, a)
        \/ \E a \in ToolUpserts : upsert_points_start(i, a)
        \/ \E a \in ToolDeletePoints : delete_points_start(i, a)
        \/ \E a \in ToolSearches : search_vectors_start(i, a)
        \/ \E a \in ToolBatches : search_batch_start(i, a)
        \/ \E a \in ToolRecommends : recommend_points_start(i, a)
        \/ \E a \in ToolAdmins : optimize_collection_start(i, a)
        \/ \E a \in ToolAdmins : create_snapshot_start(i, a)
        \/ \E a \in ToolSnapshotLists : list_snapshots_start(i, a)
        \/ get_cluster_info_start(i)
        \/ health_check_start(i)
        \/ \E f \in Faults :
            \/ list_collections_listed(i, f)
            \/ list_collections_detail(i, f)
            \/ create_collection_checked(i, f)
            \/ create_collection_created(i, f)
            \/ delete_collection_checked(i, f)
            \/ delete_collection_counted(i, f)
            \/ delete_collection_deleted(i, f)
            \/ get_collection_info_done(i, f)
            \/ update_collection_done(i, f)
            \/ count_points_done(i, f)
            \/ get_points_done(i, f)
            \/ scroll_points_done(i, f)
            \/ upsert_points_done(i, f)
            \/ delete_points_done(i, f)
            \/ search_vectors_done(i, f)
            \/ search_batch_done(i, f)
            \/ recommend_points_done(i, f)
            \/ optimize_collection_informed(i, f)
            \/ optimize_collection_triggered(i, f)
            \/ \E ok \in BOOLEAN : optimize_collection_polled(i, f, ok)
            \/ create_snapshot_informed(i, f)
            \/ create_snapshot_done(i, f)
            \/ list_snapshots_done(i, f)
            \/ get_cluster_info_listed(i, f)
            \/ get_cluster_info_detail(i, f)
            \/ health_check_done(i, f)
        \/ \E outcome \in ProbeOutcomes :
            \/ get_cluster_info_probed(i, outcome)
            \/ health_check_probed(i, outcome)
        \/ Return(i)

SpecTools == Init /\ [][NextTools]_vars

\* The event loop resumes a coroutine whose awaited request or sleep has
\* ended, and every request ends, with an answer or with an exception.
SpecToolsFair ==
    /\ SpecTools
    /\ \A i \in {1} :
          /\ WF_vars(\E f \in Faults : optimize_collection_informed(i, f))
          /\ WF_vars(\E f \in Faults : optimize_collection_triggered(i, f))
          /\ WF_vars(\E f \in Faults : \E ok \in BOOLEAN : optimize_collection_polled(i, f, ok))

(***************************************************************************)
(* Several invocations in flight on the one event loop: their segments     *)
(* between awaits interleave in any order.                                 *)
(***************************************************************************)
RaceSearches == {SearchArgs("kb", ListVector("v1"), 2)}

NextRace ==
    \E i \in Slots :
        \/ health_check_start(i)
        \/ \E outcome \in ProbeOutcomes : health_check_probed(i, outcome)
        \/ \E f \in Faults : health_check_done(i, f)
        \/ \E a \in ToolSnapshotLists : list_snapshots_start(i, a)
        \/ \E f \in Faults : list_snapshots_done(i, f)
        \/ \E a \in RaceSearches : search_vectors_start(i, a)
        \/ \E f \in Faults : search_vectors_done(i, f)
        \/ Return(i)

SpecRace == Init /\ [][NextRace]_vars

(***************************************************************************)
(* Two invocations in flight create and delete one collection and write    *)
(* and delete its points; the engine serves their requests one at a time,  *)
(* in the order they arrive.                                               *)
(***************************************************************************)
WriterCreates == {Collection("kb", d) : d \in {"cosine", "euclid"}}
WriterDeletes == {Deletion("kb", TRUE)}
WriterUpserts == {Upsert("kb", <<Point(d, Topic("a"))>>) : d \in {D1, D2}}
WriterDeletePoints == {DeletePoints("kb", ListOf(<<D1>>), PyNoneMap)}

NextWriters ==
    \E i \in {1, 2} :
        \/ \E a \in WriterCreates : create_collection_start(i, a)
        \/ \E f \in Faults : create_collection_checked(i, f)
        \/ \E f \in Faults : create_collection_created(i, f)
        \/ \E a \in WriterDeletes : delete_collection_start(i, a)
        \/ \E f \in Faults : delete_collection_checked(i, f)
        \/ \E f \in Faults : delete_collection_counted(i, f)
        \/ \E f \in Faults : delete_collection_deleted(i, f)
        \/ \E a \in WriterUpserts : upsert_points_start(i, a)
        \/ \E f \in Faults : upsert_points_done(i, f)
        \/ \E a \in WriterDeletePoints : delete_points_start(i, a)
        \/ \E f \in Faults : delete_points_done(i, f)
        \/ Return(i)

SpecWriters == Init /\ [][NextWriters]_vars

(***************************************************************************)
(* Two invocations in flight create one collection, each with its own      *)
(* distance; nothing deletes it.                                           *)
(***************************************************************************)
CreatorCreates == {Collection("kb", d) : d \in {"cosine", "euclid", "manhattan"}}

NextCreators ==
    \E i \in {1, 2} :
        \/ \E a \in CreatorCreates : create_collection_start(i, a)
        \/ \E f \in Faults : create_collection_checked(i, f)
        \/ \E f \in Faults : create_collection_created(i, f)
        \/ Return(i)

SpecCreators == Init /\ [][NextCreators]_vars

(***************************************************************************)
(* One caller at a time writes, reads and deletes points; its last         *)
(* exchange is kept.                                                       *)
(***************************************************************************)
Batches ==
    {<<Point(s, p)>> : s \in {D1, H1, H1U}, p \in {Topic("a"), CallersOriginal}}
    \cup {<<BarePoint(D2, "v2")>>,
          <<Point(D1, Topic("a")), Point(D2, Topic("a"))>>,
          <<Point(D1, Topic("a")), Point(H1, Topic("b"))>>,
          <<>>, <<NoId>>, <<NoVector(D1)>>,
          <<Point(D1, Topic("a")), NoVector(D2)>>,
          <<Point(D1, Topic("a")), BarePoint(D2, "v2"), NoId>>,
          <<Point(D1, PyNoneMap), NoId>>}

PointCreates == {Collection("kb", "cosine")}
PointUpserts == {Upsert("kb", ps) : ps \in Batches}
PointGets ==
    {Get("kb", <<s>>, wp) : s \in {D1, H1, H1U, D2}, wp \in BOOLEAN}
    \cup {Get("kb", ids, TRUE) : ids \in {<<D1, D2>>, <<D3, D1>>, <<Surrogate>>, <<D2, Surrogate>>}}
PointDeletes ==
    {DeletePoints("kb", ids, f) :
        ids \in {NoneList, ListOf(<<>>), ListOf(<<D1>>), ListOf(<<H1U, D2>>)},
        f \in {PyNoneMap, EmptyMap, ByTopic("a"), UnknownClause}}

NextPoints ==
    \E i \in {1} :
        \/ \E a \in PointCreates : create_collection_start(i, a)
        \/ \E f \in Faults : create_collection_checked(i, f)
        \/ \E f \in Faults : create_collection_created(i, f)
        \/ \E a \in PointUpserts : upsert_points_start(i, a)
        \/ \E f \in Faults : upsert_points_done(i, f)
        \/ \E a \in PointGets : get_points_start(i, a)
        \/ \E f \in Faults : get_points_done(i, f)
        \/ \E a \in PointDeletes : delete_points_start(i, a)
        \/ \E f \in Faults : delete_points_done(i, f)
        \/ ReturnLogged(i)

SpecPoints == Init /\ [][NextPoints]_vars

(***************************************************************************)
(* One caller fills a collection, next to another client of the engine,    *)
(* and then pages through it: each scroll_points call takes the            *)
(* next_offset of the page before and the same limit, and nothing is       *)
(* written once the first page is asked for.                               *)
(***************************************************************************)
\* The pages the caller has received so far.
PagesOf(h) == IF "pages" \in DOMAIN h THEN h.pages ELSE <<>>

\* The envelope crosses the boundary; the caller keeps the pages of a scroll.
ReturnPaged(i) ==
    /\ inv[i].pc = "done"
    /\ hist' = IF inv[i].op = "scroll_points"
               THEN [op |-> inv[i].op, args |-> inv[i].args, result |-> inv[i].result,
                     pages |-> Append(PagesOf(hist), inv[i].result)]
               ELSE hist
    /\ inv' = [inv EXCEPT ![i] = Idle]
    /\ UNCHANGED <<cfgOk, client, constructed, attempts, backend>>

Paging == hist.op = "scroll_points" \/ \E i \in Slots : inv[i].op = "scroll_points"

\* The call the loop makes next: no offset at first, then the offset the last
\* page named, for as long as a page names one.
Resumes(a) ==
    IF PagesOf(hist) = <<>> THEN a.offset = PyNone
    ELSE /\ hist.result.status = "success"
         /\ hist.result.data.next_offset # PyNone
         /\ a.offset = hist.result.data.next_offset
         /\ a.limit = hist.args.limit

ScrollUpserts == {Upsert("kb", <<Point(d, Topic("a"))>>) : d \in {D1, D2, D3}}
PagedScrolls ==
    {Scroll("kb", l, o) : l \in {1, 2}, o \in {PyNone, "1", "2", H2, H3, H1}}

NextScroll ==
    \E i \in {1} :
        \/ ~Paging /\ \E a \in PointCreates : create_collection_start(i, a)
        \/ \E f \in Faults : create_collection_checked(i, f)
        \/ \E f \in Faults : create_collection_created(i, f)
        \/ ~Paging /\ \E a \in ScrollUpserts : upsert_points_start(i, a)
        \/ \E f \in Faults : upsert_points_done(i, f)
        \/ ~Paging /\ inv[i].pc = "idle" /\ \E id \in {I1, I2} : other_client_upsert("kb", id)
        \/ \E a \in PagedScrolls : Resumes(a) /\ scroll_points_start(i, a)
        \/ scroll_points_done(i, "none")
        \/ ReturnPaged(i)

SpecScroll == Init /\ [][NextScroll]_vars

(***************************************************************************)
(* One caller lists a collection that another client fills under integer   *)
(* ids, with page sizes from 0 on, against an engine that serves them all. *)
(***************************************************************************)
CursorScrolls == {Scroll("kb", l, o) : l \in {0, 1, 2}, o \in {PyNone, "0", "1"}}

NextCursor ==
    \E i \in {1} :
        \/ \E a \in PointCreates : create_collection_start(i, a)
        \/ \E f \in Faults : create_collection_checked(i, f)
        \/ \E f \in Faults : create_collection_created(i, f)
        \/ \E a \in ScrollUpserts : upsert_points_start(i, a)
        \/ \E f \in Faults : upsert_points_done(i, f)
        \/ inv[i].pc = "idle" /\ \E id \in {I0, I1, I2} : other_client_upsert("kb", id)
        \/ \E a \in CursorScrolls : scroll_points_start(i, a)
        \/ \E f \in Faults :
              /\ At(i, "scroll_points", "scrolling")
              /\ scroll_points_reply(i, Reply(f, BkScrollUnvalidated(backend, LastReq(inv[i]))))
        \/ ReturnLogged(i)

SpecCursor == Init /\ [][NextCursor]_vars

(***************************************************************************)
(* One caller creates a collection and updates its configuration with      *)
(* every subset of the four parameters, one update after another.          *)
(***************************************************************************)
UpdateSubsets ==
    {[name |-> n, hnsw_m |-> m, hnsw_ef_construct |-> e,
      indexing_threshold |-> t, flush_interval_sec |-> f] :
        n \in {"kb"}, m \in {NoneInt, 32}, e \in {NoneInt, 200},
        t \in {NoneInt, 0}, f \in {NoneInt, 10}}

NextUpdate ==
    \E i \in {1} :
        \/ \E a \in PointCreates : create_collection_start(i, a)
        \/ \E f \in Faults : create_collection_checked(i, f)
        \/ \E f \in Faults : create_collection_created(i, f)
        \/ \E a \in UpdateSubsets : update_collection_start(i, a)
        \/ \E f \in Faults : update_collection_done(i, f)
        \/ ReturnLogged(i)

SpecUpdate == Init /\ [][NextUpdate]_vars

(***************************************************************************)
(* Properties of the collection tools.                                     *)
(***************************************************************************)
\* The envelopes an injected engine fault turns into, per tool.
FaultEnvelopes(op) == {ToolError(FailPrefix(op) \o FaultExc(f).text) : f \in FaultKinds}

CallsNamed(s, call) == {k \in DOMAIN s.calls : s.calls[k].call = call}

\* C1: a delete_collection whose confirm is not true returns at once with the
\* error envelope that asks for confirm=true; it has obtained no client handle
\* and issued no backend call (no listing, no detail lookup, no delete), and
\* every collection and its points are as they were when it was called.
C1_UnconfirmedDeleteTouchesNothing ==
    \A i \in Slots :
        (inv[i].op = "delete_collection" /\ inv[i].pc # "idle" /\ ~inv[i].args.confirm) =>
            /\ inv[i].pc = "done"
            /\ inv[i].result =
                  ToolError("Deletion requires confirm=true to prevent accidental data loss")
            /\ inv[i].calls = <<>>
            /\ inv[i].handle = NoHandle
            /\ backend = inv[i].pre

\* An unconfirmed delete of a collection that exists and holds a point has returned.
C1_Witness ==
    /\ inv[1].op = "delete_collection"
    /\ inv[1].pc = "done"
    /\ ~inv[1].args.confirm
    /\ backend[inv[1].args.name].exists
    /\ backend[inv[1].args.name].points # NoPoints

\* C2: a create_collection(name=X) called while X exists (that is, after a
\* create of X succeeded) never issues a backend create call and leaves X's
\* configuration and points as they were; it returns the error envelope saying
\* that X already exists, or, when the engine fails the listing, that failure's
\* error envelope.
C2_DuplicateCreateRejected ==
    \A i \in Slots :
        LET s == inv[i]
        IN (s.op = "create_collection" /\ s.pc # "idle" /\ s.pre[s.args.name].exists) =>
              /\ s.pc \in {"exists_check", "done"}
              /\ CallsNamed(s, "create_collection") = {}
              /\ backend[s.args.name] = s.pre[s.args.name]
              /\ s.pc = "done" =>
                    \/ s.result = ToolError("Collection '" \o s.args.name \o "' already exists")
                    \/ s.result \in FaultEnvelopes("create_collection")

\* A second create of X, asking for another distance than X has, was refused
\* right after the create of X had succeeded.
C2_Witness ==
    /\ hist.op = "create_collection"
    /\ hist.result.status = "success"
    /\ inv[1].op = "create_collection"
    /\ inv[1].pc = "done"
    /\ inv[1].args.name = hist.args.name
    /\ inv[1].args.distance # hist.args.distance
    /\ inv[1].result = ToolError("Collection '" \o inv[1].args.name \o "' already exists")
    /\ backend[inv[1].args.name].config.distance = DistanceEnum(hist.args.distance)

(***************************************************************************)
(* Properties of the client handle and of the envelopes.                   *)
(***************************************************************************)
HandlesConstructed ==
    constructed["collections"] + constructed["points"]
        + constructed["search"] + constructed["admin"]

\* C3: across any sequence of tool invocations (collection, point, search and
\* admin operations mixed) the backend client handle is constructed once: the
\* number of handles ever constructed never exceeds 1.
C3_SingleSharedHandle == HandlesConstructed <= 1

\* C5: once the construction of the handle has failed in a get_client(), no
\* later get_client() of that module attempts the construction again.
C5_FailureMemoized ==
    \A m \in Modules : constructed[m] = 0 => attempts[m] <= 1

\* One of the two envelopes: {status: success, data} or {status: error, error}.
IsEnvelope(r) ==
    \/ DOMAIN r = {"status", "data"} /\ r.status = "success"
    \/ DOMAIN r = {"status", "error"} /\ r.status = "error"

\* C6: every invocation of any of the eighteen tools, whatever its arguments
\* and whatever the engine does (answer, not-found response, an exception at
\* any backend call or at the construction of the client), ends with one of the
\* two envelopes; no exception reaches the invocation boundary.
C6_AlwaysAnEnvelope ==
    \A i \in Slots : inv[i].pc = "done" => IsEnvelope(inv[i].result)

\* An upsert whose backend call raised a transport exception returned the error envelope.
C6_Witness ==
    /\ inv[1].op = "upsert_points"
    /\ inv[1].pc = "done"
    /\ CallsNamed(inv[1], "upsert") # {}
    /\ inv[1].result = ToolError(FailPrefix("upsert_points") \o FaultExc("transport").text)

\* C4: whatever the interleaving of the invocations that call get_client()
\* while their module has no handle yet, no two of them both find the handle
\* absent and both construct one: a module constructs at most one handle, and
\* every invocation holding a handle of the module holds that one.
C4_NoDoubleConstruction ==
    /\ \A m \in Modules : constructed[m] <= 1
    /\ \A i \in Slots :
          inv[i].handle # NoHandle =>
              inv[i].handle = [module |-> ModuleOf(inv[i].op), serial |-> 1]

\* Two health checks were both awaiting the probe while the module had no
\* handle; both have since called get_client() and hold the same handle.
C4_Witness ==
    \E i, j \in Slots :
        /\ i # j
        /\ At(i, "health_check", "api")
        /\ At(j, "health_check", "api")
        /\ inv[i].handle = inv[j].handle
        /\ inv[i].handle # NoHandle
        /\ constructed["admin"] = 1

(***************************************************************************)
(* Properties of the point tools.                                          *)
(***************************************************************************)
BackendId(id) == CanonicalId(ToUuid(id))

\* The k-th point of the batch is the last one written under its backend id.
NotSuperseded(points, k) ==
    \A j \in (k + 1)..Len(points) : BackendId(points[j].id) # BackendId(points[k].id)

\* C7: for every caller id s, UUID-formatted or not, a get_points(ids=[s])
\* that follows a successful upsert_points of a point with id s (the batch
\* writing no later point under the same backend id) on the same collection
\* returns exactly one point whose payload has original_id equal to s verbatim,
\* also when the caller's payload carried an original_id of its own; the only
\* other outcome is the error envelope of an engine fault on the retrieve.
C7_UpsertThenGetRoundTrip ==
    LET s == inv[1]
    IN (/\ s.op = "get_points"
        /\ s.pc = "done"
        /\ hist.op = "upsert_points"
        /\ hist.result.status = "success"
        /\ s.args.collection = hist.args.collection
        /\ Len(s.args.ids) = 1
        /\ s.args.with_payload
        /\ \E k \in DOMAIN hist.args.points :
              /\ hist.args.points[k].id = s.args.ids[1]
              /\ NotSuperseded(hist.args.points, k))
       => \/ s.result \in FaultEnvelopes("get_points")
          \/ /\ s.result.status = "success"
             /\ Len(s.result.data.points) = 1
             /\ s.result.data.found_count = 1
             /\ s.result.data.points[1].payload.original_id = s.args.ids[1]

\* The point "doc-1", upserted with a payload that had its own original_id,
\* came back alone under another backend id with original_id "doc-1".
C7_Witness ==
    /\ inv[1].op = "get_points"
    /\ inv[1].pc = "done"
    /\ hist.op = "upsert_points"
    /\ hist.result.status = "success"
    /\ hist.args.points = <<Point(D1, CallersOriginal)>>
    /\ inv[1].args.ids = <<D1>>
    /\ inv[1].args.with_payload
    /\ inv[1].result.status = "success"
    /\ Len(inv[1].result.data.points) = 1
    /\ inv[1].result.data.points[1].id = H1
    /\ inv[1].result.data.points[1].payload.original_id = D1

\* The batch is empty, or one of its points lacks an id or a vector.
Malformed(points) ==
    \/ points = <<>>
    \/ \E k \in DOMAIN points : {"id", "vector"} \ DOMAIN points[k] # {}

\* C8: an upsert_points whose batch is empty or holds, at any position, a
\* point without an id or without a vector returns an error envelope without
\* issuing any backend call, so that no point of the batch is stored, the
\* valid points before the invalid one included.
C8_MalformedBatchRejectedWhole ==
    \A i \in Slots :
        LET s == inv[i]
        IN (s.op = "upsert_points" /\ s.pc # "idle" /\ Malformed(s.args.points)) =>
              /\ s.pc = "done"
              /\ s.result.status = "error"
              /\ DOMAIN s.result = {"status", "error"}
              /\ s.calls = <<>>
              /\ backend = s.pre

\* A batch of two valid points and a third without an id was rejected for its
\* fields, the collection being there and holding none of the batch's points.
C8_Witness ==
    /\ inv[1].op = "upsert_points"
    /\ inv[1].pc = "done"
    /\ inv[1].args.points = <<Point(D1, Topic("a")), BarePoint(D2, "v2"), NoId>>
    /\ inv[1].result = ToolError("Each point must have 'id' and 'vector' fields")
    /\ backend["kb"].exists
    /\ backend["kb"].points = NoPoints

\* C9: delete_points(collection, ids=None, filter=None) returns at once with
\* an error envelope, has issued no backend call, and leaves the points of
\* every collection unchanged; the error is the precondition error that asks
\* for ids or a filter whenever get_client() returned a handle, and the
\* construction failure's error otherwise.
C9_NeitherIdsNorFilter ==
    \A i \in Slots :
        LET s == inv[i]
        IN (/\ s.op = "delete_points"
            /\ s.pc # "idle"
            /\ ~s.args.ids.given
            /\ s.args.filter = PyNoneMap)
           => /\ s.pc = "done"
              /\ s.calls = <<>>
              /\ backend = s.pre
              /\ s.result.status = "error"
              /\ s.handle # NoHandle =>
                    s.result = ToolError("Either 'ids' or 'filter' must be provided")
              /\ s.handle = NoHandle =>
                    ~cfgOk /\ s.result = ToolError(FailPrefix("delete_points")
                                                      \o ConstructError.text)

\* A delete_points with neither ids nor filter was refused while the collection held points.
C9_Witness ==
    /\ inv[1].op = "delete_points"
    /\ inv[1].pc = "done"
    /\ inv[1].args.ids = NoneList
    /\ inv[1].args.filter = PyNoneMap
    /\ inv[1].result = ToolError("Either 'ids' or 'filter' must be provided")
    /\ backend["kb"].points # NoPoints

\* C10: a delete_points called with a non-empty ids list and a filter is
\* accepted, whatever the filter: its one backend call is a delete whose
\* selector lists exactly the normalized ids and carries no filter; when the
\* engine answers, exactly the points under those ids are gone and the
\* response reports deleted_by = "ids" with the number of ids.
C10_IdsTakePrecedence ==
    \A i \in Slots :
        LET s == inv[i]
            a == s.args
        IN (/\ s.op = "delete_points"
            /\ s.pc # "idle"
            /\ a.ids.given
            /\ a.ids.items # <<>>
            /\ a.filter # PyNoneMap
            /\ s.handle # NoHandle)
           => LET normalized == [k \in DOMAIN a.ids.items |-> ToUuid(a.ids.items[k])]
                  gone == {CanonicalId(normalized[k]) : k \in DOMAIN normalized}
              IN /\ Len(s.calls) = 1
                 /\ s.calls[1].call = "delete"
                 /\ s.calls[1].req.collection_name = a.collection
                 /\ s.calls[1].req.points_selector =
                       [kind |-> "ids", points |-> normalized, filter |-> PyNoneMap]
                 /\ s.pc = "done" =>
                       \/ s.result \in FaultEnvelopes("delete_points")
                       \/ /\ ~s.pre[a.collection].exists
                          /\ s.result = ToolError("Collection '" \o a.collection
                                                     \o "' not found")
                       \/ /\ s.result.status = "success"
                          /\ s.result.data.deleted_by = "ids"
                          /\ s.result.data.ids_count = Len(a.ids.items)
                          /\ backend[a.collection].points =
                                Without(s.pre[a.collection].points, gone)

\* A delete by ["doc-1"] with a filter matching both stored points removed
\* the point of "doc-1" only and reported deleted_by = "ids".
C10_Witness ==
    /\ inv[1].op = "delete_points"
    /\ inv[1].pc = "done"
    /\ inv[1].args.ids = ListOf(<<D1>>)
    /\ inv[1].args.filter = ByTopic("a")
    /\ Len(Selected(inv[1].pre, "kb", ByTopic("a"))) = 2
    /\ inv[1].result.status = "success"
    /\ inv[1].result.data.deleted_by = "ids"
    /\ DOMAIN backend["kb"].points = {H2}

(***************************************************************************)
(* Properties of filters, pagination and search.                           *)
(***************************************************************************)
\* A filter the `if filter:` test lets through and qmodels.Filter refuses.
IsMalformed(f) == FilterTruthy(f) /\ ~FilterParses(f)

\* The invocation reaches the construction of a filter object from a
\* malformed filter: its own filter, or the filter of one of its queries.
CarriesMalformedFilter(op, a) ==
    CASE op \in {"count_points", "scroll_points", "search_vectors", "recommend_points"} ->
            IsMalformed(a.filter)
      [] op = "delete_points" -> ~ListTruthy(a.ids) /\ IsMalformed(a.filter)
      [] op = "search_batch" ->
            \E k \in DOMAIN a.queries :
                "filter" \in DOMAIN a.queries[k] /\ IsMalformed(a.queries[k].filter)
      [] OTHER -> FALSE

\* C11: count_points, scroll_points, search_vectors, recommend_points, a
\* delete_points that selects by filter, and a search_batch one of whose
\* queries has a filter, when that filter fails qmodels.Filter's validation,
\* return an error envelope and issue no backend request at all, hence none
\* that carries the filter.
C11_MalformedFilterNeverForwarded ==
    \A i \in Slots :
        LET s == inv[i]
        IN (s.pc # "idle" /\ CarriesMalformedFilter(s.op, s.args)) =>
              /\ s.pc = "done"
              /\ s.result.status = "error"
              /\ s.calls = <<>>

\* A batch whose first query is well-formed and whose second has a condition
\* without a key was refused with the validation failure, the client handle
\* being there and the collection holding a point.
C11_Witness ==
    /\ inv[1].op = "search_batch"
    /\ inv[1].pc = "done"
    /\ Len(inv[1].args.queries) = 2
    /\ CarriesMalformedFilter("search_batch", inv[1].args)
    /\ inv[1].handle # NoHandle
    /\ inv[1].result = ToolError("Failed to batch search: " \o FilterError.text)
    /\ backend["kb"].points # NoPoints

\* The ids of a page, in the page's order.
PageIds(page) == [k \in DOMAIN page.data.points |-> page.data.points[k].id]

RECURSIVE Concatenated(_)
\* The ids of the pages, page after page.
Concatenated(pages) ==
    IF pages = <<>> THEN <<>>
    ELSE Concatenated(SubSeq(pages, 1, Len(pages) - 1)) \o PageIds(pages[Len(pages)])

\* C12: paging through an existing collection of N points with a limit L >= 1
\* and no writes in between, each call taking the next_offset of the page
\* before: every page is a success envelope, there are at most max(N, 1)
\* pages, no point id comes twice, every page before the last has has_more
\* true, a page has has_more false exactly when it names no next_offset, and
\* the pages up to one with has_more false hold every point id of the
\* collection.
C12_ScrollVisitsEveryPointOnce ==
    LET pages == PagesOf(hist)
        n == Len(pages)
        stored == Stored(backend, "kb")
    IN (n > 0 /\ backend["kb"].exists) =>
          /\ \A k \in 1..n : pages[k].status = "success"
          /\ n <= (IF stored = {} THEN 1 ELSE Cardinality(stored))
          /\ \A k \in 1..(n - 1) : pages[k].data.has_more
          /\ pages[n].data.has_more <=> pages[n].data.next_offset # PyNone
          /\ LET ids == Concatenated(pages)
             IN /\ \A x, y \in DOMAIN ids : x # y => ids[x] # ids[y]
                /\ ~pages[n].data.has_more =>
                      {ids[k] : k \in DOMAIN ids} = {PyStr(u) : u \in stored}

\* C13: the limit of every scroll request sent to the engine is within
\* 1..1000 and the limit of every search request of search_vectors is within
\* 1..100.
C13_ForwardedLimitsBounded ==
    \A i \in Slots : \A k \in DOMAIN inv[i].calls :
        LET c == inv[i].calls[k]
        IN /\ c.call = "scroll" => c.req.limit \in 1..ScrollLimitMax
           /\ c.call = "search" => c.req.query.limit \in 1..SearchLimitMax

\* C14: when search_vectors returns a success envelope, its one request
\* carried the caller's score_threshold unchanged, and the results are the
\* engine's answer element for element in the same order (same length, same
\* id and score at each position), in non-increasing score order and with
\* no score below the threshold.
C14_SearchPassesThrough ==
    [][\A i \in Slots :
          (/\ At(i, "search_vectors", "searching")
           /\ inv'[i].pc = "done"
           /\ inv'[i].result.status = "success") =>
              LET a == inv[i].args
                  req == LastReq(inv[i])
                  answer == BkSearch(backend, req).resp
                  results == inv'[i].result.data.results
              IN /\ Len(inv'[i].calls) = 1
                 /\ req.query.score_threshold = a.score_threshold
                 /\ Len(results) = Len(answer)
                 /\ \A k \in DOMAIN results :
                       /\ results[k].id = PyStr(answer[k].id)
                       /\ results[k].score = answer[k].score
                 /\ \A k \in 1..(Len(results) - 1) : results[k].score >= results[k + 1].score
                 /\ a.score_threshold # NoneInt =>
                       \A k \in DOMAIN results : results[k].score >= a.score_threshold
      ]_vars

\* A search with threshold 4 over two stored points that returned both, the
\* one scoring 10 before the one scoring 4.
C14_Witness ==
    /\ inv[1].op = "search_vectors" /\ inv[1].pc = "done"
    /\ inv[1].result.status = "success"
    /\ inv[1].args.score_threshold = 4
    /\ Len(inv[1].calls) = 1
    /\ inv[1].calls[1].req.query.score_threshold = 4
    /\ Cardinality(Stored(backend, "kb")) = 2
    /\ inv[1].result.data.count = 2
    /\ inv[1].result.data.results[1].score = 10
    /\ inv[1].result.data.results[2].score = 4

\* The search one query of a batch asks for by itself.
OwnQuery(q) ==
    [vector |-> q.vector.val,
     limit |-> IF "limit" \in DOMAIN q THEN q.limit ELSE DefaultBatchLimit,
     score_threshold |-> IF "score_threshold" \in DOMAIN q THEN q.score_threshold ELSE NoneInt,
     filter |-> IF "filter" \in DOMAIN q /\ FilterTruthy(q.filter) THEN q.filter ELSE PyNoneMap]

\* C15: when search_batch returns a success envelope for n queries, it made
\* exactly one engine call, a search_batch carrying n requests of which the
\* k-th has the k-th query's own vector, limit, filter and score_threshold,
\* and batch_results has n entries of which the k-th is, position by
\* position, the engine's answer to the k-th query alone.
C15_BatchKeepsQueryOrder ==
    [][\A i \in Slots :
          (/\ At(i, "search_batch", "searching")
           /\ inv'[i].pc = "done"
           /\ inv'[i].result.status = "success") =>
              LET a == inv[i].args
                  n == Len(a.queries)
                  calls == inv'[i].calls
                  batch == inv'[i].result.data.batch_results
              IN /\ Len(calls) = 1
                 /\ calls[1].call = "search_batch"
                 /\ Len(calls[1].req.requests) = n
                 /\ \A k \in 1..n : calls[1].req.requests[k] = OwnQuery(a.queries[k])
                 /\ Len(batch) = n
                 /\ inv'[i].result.data.query_count = n
                 /\ \A k \in 1..n :
                       LET alone == Search(backend, a.collection, OwnQuery(a.queries[k]))
                       IN /\ Len(batch[k]) = Len(alone)
                          /\ \A p \in DOMAIN alone :
                                /\ batch[k][p].id = PyStr(alone[p].id)
                                /\ batch[k][p].score = alone[p].score
      ]_vars

\* A batch of three queries that differ in vector, limit, threshold and
\* filter, answered over two stored points: the entries differ accordingly.
C15_Witness ==
    /\ inv[1].op = "search_batch" /\ inv[1].pc = "done"
    /\ inv[1].result.status = "success"
    /\ Len(inv[1].args.queries) = 3
    /\ Len(inv[1].calls) = 1
    /\ Cardinality(Stored(backend, "kb")) = 2
    /\ Len(inv[1].result.data.batch_results) = 3
    /\ Len(inv[1].result.data.batch_results[1]) = 1
    /\ Len(inv[1].result.data.batch_results[2]) = 1
    /\ Len(inv[1].result.data.batch_results[3]) = 1
    /\ inv[1].result.data.batch_results[1][1].id = H2
    /\ inv[1].result.data.batch_results[2][1].id = H1
    /\ inv[1].result.data.batch_results[3][1].score = 4

\* C16: a recommend_points call with an empty positive list ends in an error
\* envelope without any engine call; a call with a non-empty positive list
\* and no negative examples (omitted or empty), a client and a filter that
\* parses makes exactly one engine call, a recommend whose negative list is
\* empty, and its envelope is never the error of a missing example.
C16_RecommendNeedsPositive ==
    \A i \in Slots :
        LET s == inv[i]
        IN (s.op = "recommend_points" /\ s.pc # "idle") =>
              /\ s.args.positive = <<>> =>
                    /\ s.pc = "done"
                    /\ s.result.status = "error"
                    /\ s.calls = <<>>
              /\ (/\ s.args.positive # <<>>
                  /\ ~ListTruthy(s.args.negative)
                  /\ s.handle # NoHandle
                  /\ ~IsMalformed(s.args.filter)) =>
                    /\ Len(s.calls) = 1
                    /\ s.calls[1].call = "recommend"
                    /\ s.calls[1].req.positive = s.args.positive
                    /\ s.calls[1].req.negative = <<>>
                    /\ s.pc = "done" =>
                          \/ /\ s.result.status = "success"
                             /\ s.result.data.negative_examples = <<>>
                          \/ /\ s.result.status = "error"
                             /\ s.result.error # "At least one positive example is required"

\* A recommendation from one stored example with negative omitted succeeded
\* and found the other stored point.
C16_Witness ==
    /\ inv[1].op = "recommend_points" /\ inv[1].pc = "done"
    /\ inv[1].args.positive = <<H1>>
    /\ inv[1].args.negative = NoneList
    /\ Len(inv[1].calls) = 1
    /\ inv[1].calls[1].req.negative = <<>>
    /\ inv[1].result.status = "success"
    /\ inv[1].result.data.count = 1
    /\ inv[1].result.data.recommendations[1].id = H2

\* The parameters of update_collection that were supplied.
Supplied(a) ==
    {p \in {"hnsw_m", "hnsw_ef_construct", "indexing_threshold", "flush_interval_sec"} :
        a[p] # NoneInt}

\* C17: an update_collection call with none of the four parameters supplied
\* ends in an error envelope without any engine call, the engine being as it
\* was when the call began; with a client the error is the one of nothing to
\* update.
C17_EmptyUpdateIsError ==
    \A i \in Slots :
        LET s == inv[i]
        IN (s.op = "update_collection" /\ s.pc # "idle" /\ Supplied(s.args) = {}) =>
              /\ s.pc = "done"
              /\ s.result.status = "error"
              /\ s.calls = <<>>
              /\ backend = s.pre
              /\ s.handle # NoHandle => s.result = ToolError("No update parameters provided")

\* An update without parameters of an existing collection whose
\* configuration an earlier update had changed.
C17_Witness ==
    /\ inv[1].op = "update_collection" /\ inv[1].pc = "done"
    /\ Supplied(inv[1].args) = {}
    /\ inv[1].handle # NoHandle
    /\ inv[1].result = ToolError("No update parameters provided")
    /\ backend["kb"].exists
    /\ backend["kb"].config.m = 32
    /\ hist.op = "update_collection" /\ hist.result.status = "success"

\* The configuration field each parameter of update_collection stands for.
FieldOf(p) ==
    CASE p = "hnsw_m" -> "m"
      [] p = "hnsw_ef_construct" -> "ef_construct"
      [] OTHER -> p

\* C18: when update_collection returns a success envelope, its one update
\* request carries hnsw_config exactly when hnsw_m or hnsw_ef_construct was
\* supplied and optimizers_config exactly when indexing_threshold or
\* flush_interval_sec was supplied, each group holding the supplied values
\* and None for the rest, and afterwards every supplied parameter has the
\* supplied value while every other field of the configuration, and every
\* other collection, is as before.
C18_PartialUpdate ==
    [][\A i \in Slots :
          (/\ At(i, "update_collection", "updating")
           /\ inv'[i].pc = "done"
           /\ inv'[i].result.status = "success") =>
              LET a == inv[i].args
                  req == inv'[i].calls[1].req
                  old == backend[a.name].config
                  new == backend'[a.name].config
              IN /\ Len(inv'[i].calls) = 1
                 /\ inv'[i].calls[1].call = "update_collection"
                 /\ req.hnsw_config = PyNoneMap
                       <=> Supplied(a) \cap {"hnsw_m", "hnsw_ef_construct"} = {}
                 /\ req.optimizers_config = PyNoneMap
                       <=> Supplied(a) \cap {"indexing_threshold", "flush_interval_sec"} = {}
                 /\ req.hnsw_config # PyNoneMap =>
                       /\ req.hnsw_config.m = a.hnsw_m
                       /\ req.hnsw_config.ef_construct = a.hnsw_ef_construct
                 /\ req.optimizers_config # PyNoneMap =>
                       /\ req.optimizers_config.indexing_threshold = a.indexing_threshold
                       /\ req.optimizers_config.flush_interval_sec = a.flush_interval_sec
                 /\ DOMAIN new = DOMAIN old
                 /\ \A p \in Supplied(a) : new[FieldOf(p)] = a[p]
                 /\ \A f \in DOMAIN old \ {FieldOf(p) : p \in Supplied(a)} : new[f] = old[f]
                 /\ \A n \in Names \ {a.name} : backend'[n] = backend[n]
      ]_vars

\* After an update that set flush_interval_sec, an update of hnsw_m alone
\* succeeded: m has the new value, flush_interval_sec the one set before,
\* and the request had no optimizer group.
C18_Witness ==
    /\ inv[1].op = "update_collection" /\ inv[1].pc = "done"
    /\ inv[1].result.status = "success"
    /\ Supplied(inv[1].args) = {"hnsw_m"}
    /\ inv[1].calls[1].req.optimizers_config = PyNoneMap
    /\ inv[1].calls[1].req.hnsw_config.ef_construct = NoneInt
    /\ inv[1].pre["kb"].config.m = 16
    /\ inv[1].pre["kb"].config.flush_interval_sec = 10
    /\ backend["kb"].config.m = 32
    /\ backend["kb"].config.flush_interval_sec = 10
    /\ backend["kb"].config.ef_construct = 100

\* The polls an optimize_collection call has made: its requests after the
\* statistics and the trigger.
Polls(s) == IF Len(s.calls) > 2 THEN Len(s.calls) - 2 ELSE 0

MaxPolls == MaxWait \div PollInterval

\* What the poll loop has done so far is within its bound.
PollsBounded ==
    \A i \in Slots :
        LET s == inv[i]
        IN s.op = "optimize_collection" =>
              /\ Polls(s) <= MaxPolls
              /\ s.pc = "polling" =>
                    /\ s.args.wait
                    /\ s.loc.waited = PollInterval * Polls(s)
                    /\ s.loc.waited <= MaxWait
              /\ (s.pc = "done" /\ s.result.status = "success") =>
                    IF s.args.wait
                    THEN \/ s.result.data.optimization_complete
                         \/ /\ ~s.result.data.optimization_complete
                            /\ s.result.data.message = "Optimization still in progress"
                            /\ Polls(s) = MaxPolls
                    ELSE Polls(s) = 0

\* What one answered poll leads to: the next poll two seconds later, the
\* report of completion, the report of the timeout after the last poll, or
\* the report of the poll's exception.
PollStep ==
    \A i \in Slots :
        (At(i, "optimize_collection", "polling") /\ inv'[i] # inv[i]) =>
            LET s == inv[i]
                t == inv'[i]
            IN \/ /\ t.pc = "polling"
                  /\ s.loc.waited < MaxWait
                  /\ t.loc.waited = s.loc.waited + PollInterval
                  /\ Len(t.calls) = Len(s.calls) + 1
               \/ /\ t.pc = "done" /\ t.calls = s.calls
                  /\ t.result.status = "success"
                  /\ t.result.data.optimization_complete
               \/ /\ t.pc = "done" /\ t.calls = s.calls
                  /\ s.loc.waited = MaxWait
                  /\ t.result.status = "success"
                  /\ ~t.result.data.optimization_complete
                  /\ t.result.data.message = "Optimization still in progress"
               \/ /\ t.pc = "done" /\ t.calls = s.calls
                  /\ t.result \in
                       {Caught("optimize_collection", s.args.collection, e) :
                           e \in {FaultExc(f) : f \in FaultKinds}
                                 \cup {NotFound(s.args.collection)}}

\* C19: every optimize_collection call returns; with wait it makes at most
\* 30 polls, 2 seconds of waiting before each and 60 in all; a poll that
\* finds the optimizer at rest ends the loop with optimization_complete
\* true; when the 30th poll still does not, the envelope is a success with
\* optimization_complete false and the message 'Optimization still in
\* progress'; an error envelope comes only from a poll that raised.
C19_OptimizeWaitTerminates ==
    /\ []PollsBounded
    /\ [][PollStep]_vars
    /\ \A i \in {1} :
          (inv[i].op = "optimize_collection" /\ inv[i].pc # "idle")
             ~> (inv[i].op = "optimize_collection" /\ inv[i].pc = "done")

\* The call returned after the 30th poll, none of which found the optimizer
\* at rest.
C19_Witness ==
    /\ inv[1].op = "optimize_collection" /\ inv[1].pc = "done"
    /\ inv[1].args.wait
    /\ Polls(inv[1]) = MaxPolls
    /\ inv[1].result.status = "success"
    /\ ~inv[1].result.data.optimization_complete
    /\ inv[1].result.data.message = "Optimization still in progress"

\* The entries list_collections has built once the detail lookup of the
\* k-th listed collection has been answered.
EntriesAfter(t) == IF t.pc = "done" THEN t.result.data.collections ELSE t.loc.out

\* C20: once the listing has been answered, no failing detail lookup ends
\* list_collections: each lookup adds one entry for the collection it was
\* made for, which is the engine's detail or, the lookup having given none,
\* an entry with status "unknown" and points_count 0, and after the last one
\* the envelope is a success whose entries are the listed collections, each
\* once and in listing order, with total_count their number.
C20_ListingDegradesPerEntry ==
    [][\A i \in Slots :
          (At(i, "list_collections", "detail") /\ inv'[i] # inv[i]) =>
              LET s == inv[i]
                  t == inv'[i]
                  names == s.loc.names
                  k == s.loc.k
                  entries == EntriesAfter(t)
                  detail == BkGetCollection(backend, names[k])
              IN /\ t.pc \in {"detail", "done"}
                 /\ t.pc = "done" <=> k = Len(names)
                 /\ t.pc = "detail" => t.loc.names = names /\ t.loc.k = k + 1
                 /\ t.pc = "done" =>
                       /\ t.result.status = "success"
                       /\ t.result.data.total_count = Len(names)
                       /\ Len(t.calls) = 1 + Len(names)
                 /\ names = BkGetCollections(s.pre).resp.collections
                 /\ \A x, y \in DOMAIN names : x # y => names[x] # names[y]
                 /\ Len(entries) = k
                 /\ \A j \in 1..k : entries[j].name = names[j]
                 /\ \A j \in 1..(k - 1) : entries[j] = s.loc.out[j]
                 /\ \/ entries[k] = [name |-> names[k], status |-> "unknown", points_count |-> 0]
                    \/ /\ detail.exc = NoExc
                       /\ entries[k] = [name |-> names[k], status |-> detail.resp.status,
                                        points_count |-> detail.resp.points_count]
      ]_vars

\* Two collections were listed, the lookup of the first failed and that of
\* the second was answered.
C20_Witness ==
    /\ inv[1].op = "list_collections" /\ inv[1].pc = "done"
    /\ Len(inv[1].calls) = 3
    /\ inv[1].result.status = "success"
    /\ inv[1].result.data.total_count = 2
    /\ inv[1].result.data.collections[1] = [name |-> "kb", status |-> "unknown", points_count |-> 0]
    /\ inv[1].result.data.collections[2].name = "tmp"
    /\ inv[1].result.data.collections[2].status = "green"

(* Properties of the health check, identifiers and timeouts. *)

\* What a finished health_check reports, and what GET /health makes of it.
HealthReport ==
    \A i \in Slots :
        LET s == inv[i]
            r == s.result
            e == health_endpoint(r)
        IN (s.op = "health_check" /\ s.pc = "done") =>
              /\ r.status = "success" =>
                    /\ r.data.status \in {"healthy", "degraded", "unhealthy"}
                    /\ r.data.status = "unhealthy" <=> Len(s.calls) = 1
                    /\ r.data.status # "unhealthy" =>
                          /\ Len(s.calls) = 2
                          /\ s.calls[1].call = "http_get_root"
                          /\ s.calls[2].call = "get_collections"
                          /\ r.data.http_ok = s.loc.http_ok
                          /\ r.data.status = "healthy" <=> (r.data.http_ok /\ r.data.api_ok)
              /\ e.status_code \in {200, 503}
              /\ e.status_code = 200 <=> (r.status = "success" /\ r.data.status = "healthy")

\* What each outcome of the two probes leads to.
HealthStep ==
    \A i \in Slots :
        /\ \A o \in ProbeOutcomes :
              health_check_probed(i, o) =>
                 /\ o = "error" =>
                       /\ inv'[i].pc = "done"
                       /\ inv'[i].result.status = "success"
                       /\ inv'[i].result.data.status = "unhealthy"
                 /\ (o # "error" /\ inv'[i].pc # "done") =>
                       /\ inv'[i].pc = "api"
                       /\ inv'[i].loc.http_ok <=> o = "200"
        /\ \A f \in Faults :
              health_check_done(i, f) =>
                 /\ inv'[i].pc = "done"
                 /\ inv'[i].result.status = "success"
                 /\ inv'[i].result.data.api_ok <=> f = "none"
                 /\ inv'[i].result.data.status = "healthy" <=> (inv[i].loc.http_ok /\ f = "none")
                 /\ (inv[i].loc.http_ok /\ f # "none") => inv'[i].result.data.status = "degraded"

\* C21: health_check reports "healthy" exactly when the GET on the engine's
\* root URL answered 200 and the collection listing succeeded, and
\* "degraded" when the root answered 200 and the listing raised; GET /health
\* answers 200 exactly when health_check returned a success envelope with
\* status "healthy", and 503 otherwise.
C21_HealthyIffBothProbes == []HealthReport /\ [][HealthStep]_vars

\* The root URL answered 200 and the listing raised: "degraded", and 503.
C21_Witness ==
    /\ inv[1].op = "health_check" /\ inv[1].pc = "done"
    /\ inv[1].result.status = "success"
    /\ inv[1].result.data.status = "degraded"
    /\ Len(inv[1].calls) = 2
    /\ inv[1].result.data.http_ok
    /\ ~inv[1].result.data.api_ok
    /\ health_endpoint(inv[1].result).status_code = 503

\* C22: whenever delete_collection returns its success envelope, the
\* collection is gone and deleted_points is the number of points the
\* collection held when the engine dropped it, also with an upsert_points or
\* delete_points of another invocation in flight.
C22_DeletedCountIsCurrent ==
    [][\A i \in Slots :
          (/\ At(i, "delete_collection", "deleting")
           /\ inv'[i].pc = "done"
           /\ inv'[i].result.status = "success") =>
              /\ ~backend'[inv[i].args.name].exists
              /\ inv'[i].result.data.deleted_points =
                    Cardinality(DOMAIN backend[inv[i].args.name].points)
      ]_vars

\* C23: _to_uuid returns for every caller id, the id itself when it parses
\* as a UUID and its UUIDv5 otherwise, so that distinct ids that are no UUIDs
\* get distinct engine ids, and it changes nothing: every get_points that
\* has a client sends one retrieve request whose k-th id is that value for
\* the k-th caller id, the engine being as it was when the call began.
C23_NormalizerTotalAndPure ==
    \A i \in Slots :
        LET s == inv[i]
        IN (s.op = "get_points" /\ s.pc # "idle" /\ s.handle # NoHandle) =>
              /\ Len(s.calls) = 1
              /\ s.calls[1].call = "retrieve"
              /\ Len(s.calls[1].req.ids) = Len(s.args.ids)
              /\ \A k \in DOMAIN s.args.ids :
                    s.calls[1].req.ids[k] =
                       IF ParsesAsUuid(s.args.ids[k]) THEN s.args.ids[k] ELSE Uuid5(s.args.ids[k])
              /\ \A k, l \in DOMAIN s.args.ids :
                    (/\ s.args.ids[k] # s.args.ids[l]
                     /\ ~ParsesAsUuid(s.args.ids[k])
                     /\ ~ParsesAsUuid(s.args.ids[l])) =>
                          s.calls[1].req.ids[k] # s.calls[1].req.ids[l]
              /\ s.pc = "retrieving" => backend = s.pre

\* C24: every request an operation sends to the engine goes through a
\* client handle, whose timeout was given at construction, and carries no
\* timeout of its own.
C24_OneTimeoutForAll ==
    \A i \in Slots : \A k \in DOMAIN inv[i].calls :
        LET c == inv[i].calls[k]
        IN /\ c.via # NoHandle
           /\ "timeout" \notin DOMAIN c.req

(* Properties of concurrent invocations. *)

\* The invocations that hold a success envelope of create_collection for name.
Winners(name) ==
    {i \in Slots : /\ inv[i].op = "create_collection" /\ inv[i].pc = "done"
                   /\ inv[i].args.name = name
                   /\ inv[i].result.status = "success"}

\* No two invocations hold a success for one name; of two that both sent
\* their create request, one holds an error, and the collection has the
\* configuration the winner asked for.
OneWinner ==
    \A name \in Names :
        /\ Cardinality(Winners(name)) <= 1
        /\ \A i \in Winners(name) :
              /\ backend[name].exists
              /\ backend[name].config.distance = DistanceEnum(inv[i].args.distance)
        /\ \A i, j \in Slots :
              (/\ i # j
               /\ inv[i].op = "create_collection" /\ inv[j].op = "create_collection"
               /\ inv[i].args.name = name /\ inv[j].args.name = name
               /\ inv[i].pc = "done" /\ inv[j].pc = "done"
               /\ Len(inv[i].calls) = 2 /\ Len(inv[j].calls) = 2
               /\ inv[i].result.status = "success") =>
                    inv[j].result.status = "error"

\* A create request that arrives when the collection exists changes nothing
\* and ends in an error envelope.
LoserChangesNothing ==
    \A i \in Slots :
        (/\ At(i, "create_collection", "creating")
         /\ inv'[i] # inv[i]
         /\ backend[inv[i].args.name].exists) =>
              /\ backend' = backend
              /\ inv'[i].pc = "done"
              /\ inv'[i].result.status = "error"

\* C25: of two concurrent create_collection calls for a name the engine
\* does not hold, under every interleaving of their existence lookups and
\* create requests at most one returns a success envelope, the other returns
\* an error envelope, and the winner's collection stays as it was created.
C25_OneCreateWins == []OneWinner /\ [][LoserChangesNothing]_vars

\* Both calls passed the existence lookup before either created; the first
\* won with cosine, the second was refused and the collection is cosine.
C25_Witness ==
    /\ \A i \in {1, 2} : /\ inv[i].op = "create_collection" /\ inv[i].pc = "done"
                         /\ Len(inv[i].calls) = 2
                         /\ ~inv[i].pre["kb"].exists
    /\ inv[1].args.distance = "cosine" /\ inv[2].args.distance = "euclid"
    /\ inv[1].result.status = "success"
    /\ inv[2].result.status = "error"
    /\ backend["kb"].exists
    /\ backend["kb"].config.distance = "Cosine"

\* C26: identifiers given by the caller are resolved in one way by every
\* tool: the ids of a retrieve request and the positive and negative examples
\* of a recommend request are _to_uuid of the caller's, so a point stored
\* under a name is found and can serve as an example under that same name.
C26_IdsResolvedAlike ==
    \A i \in Slots : \A k \in DOMAIN inv[i].calls :
        LET a == inv[i].args
            c == inv[i].calls[k]
        IN /\ c.call = "retrieve" =>
                 c.req.ids = [n \in DOMAIN a.ids |-> ToUuid(a.ids[n])]
           /\ c.call = "recommend" =>
                 /\ c.req.positive = [n \in DOMAIN a.positive |-> ToUuid(a.positive[n])]
                 /\ c.req.negative =
                       [n \in DOMAIN OrEmpty(a.negative) |-> ToUuid(OrEmpty(a.negative)[n])]

\* C27: in every success envelope of scroll_points, has_more is true exactly
\* when next_offset is not null, whatever id the engine names as the next
\* offset, the integer id 0 included.
C27_HasMoreIffNextOffset ==
    \A i \in Slots :
        (/\ inv[i].op = "scroll_points" /\ inv[i].pc = "done"
         /\ inv[i].result.status = "success") =>
              (inv[i].result.data.has_more <=> inv[i].result.data.next_offset # PyNone)

\* C28: every delete request of delete_points names what to delete: for ids
\* absent, empty or filled and filter absent, empty or filled, the request
\* carries a selector of ids or a filter selector, and a call that builds
\* neither ends in an error envelope before the engine is asked.
C28_DeleteCarriesSelector ==
    \A i \in Slots : \A k \in DOMAIN inv[i].calls :
        inv[i].calls[k].call = "delete" =>
            inv[i].calls[k].req.points_selector # NoSelector

\* C29: the configuration in the success envelope of create_collection is
\* the one sent to the engine: whatever the distance argument, known or not,
\* the distance reported names the metric of the create request (cosine for
\* an unknown argument), and so do the size, on_disk and HNSW values.
C29_ReportsWhatWasSent ==
    \A i \in Slots :
        (/\ inv[i].op = "create_collection" /\ inv[i].pc = "done"
         /\ inv[i].result.status = "success") =>
              LET said == inv[i].result.data.config
                  sent == inv[i].calls[Len(inv[i].calls)].req
              IN /\ Lower(said.distance) = Lower(sent.distance)
                 /\ said.vector_size = sent.size
                 /\ said.on_disk = sent.on_disk
                 /\ said.hnsw_m = sent.m
                 /\ said.hnsw_ef_construct = sent.ef_construct
                 /\ said.sparse_enabled = sent.sparse

\* C30: optimize_collection changes nothing of the stored configuration:
\* when it has returned a success envelope, with wait or without, complete
\* or still in progress, the collection's indexing_threshold is the one it
\* had when the call began.
C30_OptimizeKeepsThreshold ==
    \A i \in Slots :
        (/\ inv[i].op = "optimize_collection" /\ inv[i].pc = "done"
         /\ inv[i].result.status = "success") =>
              LET name == inv[i].args.collection
              IN /\ backend[name].exists
                 /\ inv[i].pre[name].exists
                 /\ backend[name].config.indexing_threshold =
                       inv[i].pre[name].config.indexing_threshold

====
